---- MODULE Spec2Model ----
(***************************************************************************)
(* A model of request_parser: the header framing loop, the request-line    *)
(* and header tokenizers, host/port resolution, the HttpRequest object     *)
(* that orchestrates them, its body and body dispatch, and QueryDict       *)
(* (src/request_parser/http/request.py), and the MultiValueDict they       *)
(* store into (src/utils/datastructures.py).                               *)
(*                                                                         *)
(* Byte strings are sequences of one-character strings; the Python value   *)
(* '' is the empty sequence.  The code is Python 2: str is a byte string.  *)
(***************************************************************************)
EXTENDS Integers, Sequences, FiniteSets, TLC

VARIABLES
    source,        \* request_stream: the chunks the transport still delivers
    orig,          \* the whole byte stream request_stream held at construction
    req,           \* the HttpRequest's public fields
    stream_attr,   \* what self._stream points at ("unset" until a caller sets it)
    read_started,  \* self._read_started ("unset" until read() runs)
    raised,        \* the exception the last call on the request ended with
    scan,          \* the locals of the last parse_request_header call
    readout,       \* what read() has returned so far: number of reads, bytes
    nparse,        \* number of parse_request_header calls so far
    call,          \* the last call of a module-level function: name, argument, result
    heap,          \* the list objects the dicts hold, by place
    dct,           \* a MultiValueDict or QueryDict
    cpy,           \* the QueryDict dct.copy() returned
    hist,          \* what was done to dct and cpy: the last call, contents recorded
    body_attr,     \* self._body, and what the BytesIO made of it still holds
    form,          \* self.POST, self._post and self._files
    nread,         \* number of reads made on request_stream through read()/readline()
    last,          \* the last access to body, GET or POST, or _load_post_and_files call
    repoint        \* whether request_stream was replaced, and what the request was then

vars ==
    <<source, orig, req, stream_attr, read_started, raised, scan, readout,
      nparse, call, heap, dct, cpy, hist, body_attr, form, nread, last,
      repoint>>

dictvars == <<heap, dct, cpy, hist>>

bodyvars == <<body_attr, form, nread, last, repoint>>

reqvars ==
    <<source, orig, req, stream_attr, read_started, raised, scan, readout,
      nparse, bodyvars>>

-----------------------------------------------------------------------------
(* Bounds of the model.                                                    *)

MaxStreamLen == 5

MaxCuts == 2

MaxParses == 2

MaxTokenLen == 4

MaxLineTokens == 4

MaxHeaderLines == 3

\* Calls made on the dicts
MaxDictOps == 2

\* Length of a query string
MaxQueryLen == 4

\* Calls of read() and readline() made by the owner of the request
MaxReads == 2

-----------------------------------------------------------------------------
(* Characters.                                                             *)

CR == "\r"

LF == "\n"

SP == " "

CRLF == <<CR, LF>>

CRLFCRLF == <<CR, LF, CR, LF>>

\* A byte outside the ASCII range (0xE9); every other character is ASCII.
NonAsciiByte == "<E9>"

UpperLetters ==
    <<"A","B","C","D","E","F","G","H","I","J","K","L","M",
      "N","O","P","Q","R","S","T","U","V","W","X","Y","Z">>

LowerLetters ==
    <<"a","b","c","d","e","f","g","h","i","j","k","l","m",
      "n","o","p","q","r","s","t","u","v","w","x","y","z">>

Range(s) == {s[i] : i \in 1..Len(s)}

Digits == {"0","1","2","3","4","5","6","7","8","9"}

HexLower == {"a","b","c","d","e","f"} \cup Digits

\* str.strip() with no argument strips these.
Whitespace == {" ", "\t", "\n", "\r", "\f"}

\* One character of str.lower().
LowerChar(c) ==
    IF c \in Range(UpperLetters)
    THEN LowerLetters[CHOOSE i \in 1..26 : UpperLetters[i] = c]
    ELSE c

\* str.lower()
Lower(s) == [i \in 1..Len(s) |-> LowerChar(s[i])]

-----------------------------------------------------------------------------
(* Python's sequence operations, 0-based as in the source.                 *)

Min(a, b) == IF a < b THEN a ELSE b

Max(a, b) == IF a > b THEN a ELSE b

\* s[a:b] for 0 <= a
Slice(s, a, b) ==
    LET lo == Min(a, Len(s))
        hi == Max(lo, Min(b, Len(s)))
    IN  SubSeq(s, lo + 1, hi)

\* s[a:]
From(s, a) == Slice(s, a, Len(s))

\* whether sub occurs in s at 0-based index i
OccursAt(s, sub, i) ==
    /\ i >= 0
    /\ i + Len(sub) <= Len(s)
    /\ \A k \in 1..Len(sub) : s[i + k] = sub[k]

\* s.find(sub, start): the lowest index >= start where sub occurs, or -1
Find(s, sub, start) ==
    LET hits == {i \in start..(Len(s) - Len(sub)) : OccursAt(s, sub, i)}
    IN  IF hits = {} THEN -1
        ELSE CHOOSE i \in hits : \A j \in hits : i <= j

\* s.rfind(sub): the highest index where sub occurs, or -1
RFind(s, sub) ==
    LET hits == {i \in 0..(Len(s) - Len(sub)) : OccursAt(s, sub, i)}
    IN  IF hits = {} THEN -1
        ELSE CHOOSE i \in hits : \A j \in hits : i >= j

\* str.strip()
Strip(s) ==
    LET keep == {i \in 1..Len(s) : s[i] \notin Whitespace}
    IN  IF keep = {} THEN <<>>
        ELSE SubSeq(s, CHOOSE i \in keep : \A j \in keep : i <= j,
                       CHOOSE i \in keep : \A j \in keep : i >= j)

\* ''.join(chunks)
RECURSIVE Flatten(_)
Flatten(chunks) ==
    IF chunks = <<>> THEN <<>> ELSE Head(chunks) \o Flatten(Tail(chunks))

\* s.split(sep, maxsplit) for a one-character sep
RECURSIVE Split(_, _, _)
Split(s, sep, maxsplit) ==
    LET i == Find(s, <<sep>>, 0)
    IN  IF maxsplit = 0 \/ i = -1 THEN <<s>>
        ELSE <<Slice(s, 0, i)>> \o Split(From(s, i + 1), sep, maxsplit - 1)

\* The outcome of a call: the exception it raised ("none": it returned).
NoError == "none"

-----------------------------------------------------------------------------
(* MultiValueDict: a dict from keys to lists of values.                    *)

EmptyDict == [k \in {} |-> <<>>]

\* dict.__setitem__(d, key, list_)
DictSet(d, key, list_) ==
    [k \in (DOMAIN d) \cup {key} |-> IF k = key THEN list_ ELSE d[k]]

\* dict.__delitem__(d, key) for a key that is present
DictDel(d, key) == [k \in (DOMAIN d) \ {key} |-> d[k]]

\* MultiValueDict.__getitem__ for a key that is present: the last value,
\* or [] for an empty list
MVD_getitem(d, key) ==
    IF d[key] = <<>> THEN <<>> ELSE d[key][Len(d[key])]

\* MultiValueDict.get
MVD_get(d, key, default) ==
    IF key \notin DOMAIN d THEN default
    ELSE IF d[key] = <<>> THEN default
    ELSE MVD_getitem(d, key)

\* MultiValueDict.getlist
MVD_getlist(d, key) ==
    IF key \notin DOMAIN d THEN <<>> ELSE d[key]

-----------------------------------------------------------------------------
(* parse_request_headers                                                   *)

\* str.encode('ascii', '') of a Python 2 str: an implicit ASCII decode first,
\* which fails on any byte outside the ASCII range.
EncodesAsAscii(s) == \A i \in 1..Len(s) : s[i] # NonAsciiByte

\* The header's value as stored: the text after the first colon, stripped.
HeaderValue(request_header, end_index) ==
    Strip(From(request_header, end_index + 1))

\* The header's name as stored: the text before the first colon.
HeaderName(request_header, end_index) ==
    Slice(request_header, 0, end_index)

\* AddHeader with the list replaced instead of appended to.
AddHeader_Replacing(request_headers, header, value) ==
    DictSet(request_headers, header, <<value>>)

\* request_headers[header].append(value), creating the list when absent
AddHeader(request_headers, header, value) ==
    IF header \in DOMAIN request_headers
    THEN DictSet(request_headers, header, Append(request_headers[header], value))
    ELSE DictSet(request_headers, header, <<value>>)

\* The exception raised for a header line without a colon.  The message is
\* formatted from the local `header`, which is bound only once an earlier
\* line has been accepted.
NoColonError(header_bound) ==
    IF header_bound THEN "InvalidHttpRequest" ELSE "UnboundLocalError"

\* One accepted header line: its name and value are stored, or the
\* conversion of either fails.
RECURSIVE HeaderLoop(_, _, _)
StoreHeader(rest, request_headers, header, value) ==
    IF ~EncodesAsAscii(header) \/ ~EncodesAsAscii(value)
    THEN [err |-> "UnicodeDecodeError", request_headers |-> request_headers]
    ELSE HeaderLoop(rest, AddHeader(request_headers, header, value), TRUE)

\* "parse the request header": one header line, split at its first colon.
HeaderLine(request_header, end_index, rest, request_headers, header_bound) ==
    IF end_index # -1
    THEN StoreHeader(rest, request_headers,
                     HeaderName(request_header, end_index),
                     HeaderValue(request_header, end_index))
    ELSE [err |-> NoColonError(header_bound),
          request_headers |-> request_headers]

\* The body of the while loop, for the line that ends at `end`.
HeaderLoopBody(request_header_stream, end, request_headers, header_bound) ==
    HeaderLine(Slice(request_header_stream, 0, end),
               Find(Slice(request_header_stream, 0, end), <<":">>, 0),
               From(request_header_stream, end + 2),
               request_headers, header_bound)

\* while end != -1, for end = request_header_stream.find('\r\n', 1)
HeaderLoopAt(request_header_stream, end, request_headers, header_bound) ==
    IF end = -1
    THEN [err |-> NoError, request_headers |-> request_headers]
    ELSE HeaderLoopBody(request_header_stream, end, request_headers,
                        header_bound)

\* The while loop over the header lines.
HeaderLoop(request_header_stream, request_headers, header_bound) ==
    HeaderLoopAt(request_header_stream, Find(request_header_stream, CRLF, 1),
                 request_headers, header_bound)

\* "sanity check" and the return value, given the loop's outcome.
HeadersResult(request_line, loop) ==
    IF loop.err # NoError
    THEN [err |-> loop.err, request_line |-> request_line,
          request_headers |-> loop.request_headers]
    ELSE IF DOMAIN loop.request_headers = {}
    THEN [err |-> "InvalidHttpRequest", request_line |-> request_line,
          request_headers |-> EmptyDict]
    ELSE [err |-> NoError, request_line |-> request_line,
          request_headers |-> loop.request_headers]

\* The request line ends at `end`; the header lines follow it.
HeadersAfterLine(request_header_stream, end) ==
    IF end = -1
    THEN [err |-> "InvalidHttpRequest", request_line |-> <<>>,
          request_headers |-> EmptyDict]
    ELSE HeadersResult(Slice(request_header_stream, 0, end),
                       HeaderLoop(From(request_header_stream, end + 2),
                                  EmptyDict, FALSE))

parse_request_headers(request_header_stream) ==
    HeadersAfterLine(request_header_stream,
                     Find(request_header_stream, CRLF, 1))

-----------------------------------------------------------------------------
(* parse_request_line                                                      *)

\* _urlparse(uri): the six parts of a request-target.
UrlSchemeChars == Range(LowerLetters) \cup Range(UpperLetters) \cup Digits
                    \cup {"+", "-", "."}

\* s split at its first sep: <<before, after>>, after empty when sep is absent
PartitionAt(s, i, n) ==
    IF i = -1 THEN <<s, <<>>>> ELSE <<Slice(s, 0, i), From(s, i + n)>>

Partition(s, sep) == PartitionAt(s, Find(s, sep, 0), Len(sep))

\* The index of the first of "/", "?", "#" in s, or Len(s)
NetlocEnd(s) ==
    IF \E i \in 1..Len(s) : s[i] \in {"/", "?", "#"}
    THEN (CHOOSE i \in 1..Len(s) :
             /\ s[i] \in {"/", "?", "#"}
             /\ \A j \in 1..(i - 1) : s[j] \notin {"/", "?", "#"}) - 1
    ELSE Len(s)

HasScheme(uri, colon) ==
    /\ colon > 0
    /\ \A i \in 1..colon : uri[i] \in UrlSchemeChars
    /\ uri[1] \notin Digits

\* <<scheme, rest>>
SplitScheme(uri, colon) ==
    IF HasScheme(uri, colon)
    THEN <<Lower(Slice(uri, 0, colon)), From(uri, colon + 1)>>
    ELSE <<<<>>, uri>>

\* <<netloc, rest>>
SplitNetloc(rest) ==
    IF OccursAt(rest, <<"/", "/">>, 0)
    THEN <<Slice(From(rest, 2), 0, NetlocEnd(From(rest, 2))),
           From(From(rest, 2), NetlocEnd(From(rest, 2)))>>
    ELSE <<<<>>, rest>>

UrlParts4(scheme, netloc, pathq, semi) ==
    <<scheme, netloc, semi[1], semi[2], pathq[2]>>

UrlParts3(scheme, netloc, pathq, fragment) ==
    UrlParts4(scheme, netloc, pathq, Partition(pathq[1], <<";">>))
        \o <<fragment>>

UrlParts2(scheme, netloc, hash) ==
    UrlParts3(scheme, netloc, Partition(hash[1], <<"?">>), hash[2])

UrlParts1(scheme, nl) ==
    UrlParts2(scheme, nl[1], Partition(nl[2], <<"#">>))

UrlParts0(sch) == UrlParts1(sch[1], SplitNetloc(sch[2]))

\* _urlparse(uri): <<scheme, netloc, path, params, query, fragment>>
urlparse(uri) == UrlParts0(SplitScheme(uri, Find(uri, <<":">>, 0)))

\* a, b, c = iterable: Python raises ValueError unless it yields three values
UnpacksToThree(iterable) == Len(iterable) = 3

NoMetaDict ==
    [SCHEME |-> <<>>, DOMAIN_ |-> <<>>, PATH |-> <<>>, PARAMS |-> <<>>,
     QUERY_STRING |-> <<>>, FRAGMENT |-> <<>>, METHOD |-> <<>>,
     PROTO_INFO |-> <<>>]

\* The dictionary parse_request_line builds from the three tokens.
RequestLineResult(method, request_uri_result, protocol_version) ==
    [err |-> NoError,
     meta_dict |->
        [SCHEME |-> request_uri_result[1],
         DOMAIN_ |-> request_uri_result[2],
         PATH |-> request_uri_result[3],
         PARAMS |-> request_uri_result[4],
         QUERY_STRING |-> request_uri_result[5],
         FRAGMENT |-> request_uri_result[6],
         METHOD |-> method,
         PROTO_INFO |-> protocol_version]]

\* parse_request_line from `_splits = request_line.split(' ', 3)` on
SplitsResult(_splits) ==
    IF Len(_splits) > 3
    THEN [err |-> "InvalidHttpRequest", meta_dict |-> NoMetaDict]
    ELSE IF ~UnpacksToThree(_splits)
    THEN [err |-> "ValueError", meta_dict |-> NoMetaDict]
    ELSE IF _splits[1] = <<>> \/ _splits[2] = <<>> \/ _splits[3] = <<>>
    THEN [err |-> "InvalidHttpRequest", meta_dict |-> NoMetaDict]
    ELSE RequestLineResult(_splits[1], urlparse(_splits[2]), _splits[3])

\* The right-hand side of `method, uri, protocol_version = ''`
InitialTokens == <<>>

parse_request_line(request_line) ==
    IF ~UnpacksToThree(InitialTokens)
    THEN [err |-> "ValueError", meta_dict |-> NoMetaDict]
    ELSE SplitsResult(Split(request_line, SP, 3))

-----------------------------------------------------------------------------
(* split_domain_port                                                       *)

AllIn(s, S) == \A i \in 1..Len(s) : s[i] \in S

HostNameChars == Range(LowerLetters) \cup Digits \cup {".", "-"}

\* [a-z0-9.-]+
IsHostName(s) == Len(s) >= 1 /\ AllIn(s, HostNameChars)

\* \[[a-f0-9]*:[a-f0-9\.:]+\]
IsBracketed(s) ==
    /\ Len(s) >= 4
    /\ s[1] = "["
    /\ s[Len(s)] = "]"
    /\ \E i \in 2..(Len(s) - 2) :
          /\ s[i] = ":"
          /\ AllIn(SubSeq(s, 2, i - 1), HexLower)
          /\ AllIn(SubSeq(s, i + 1, Len(s) - 1), HexLower \cup {".", ":"})

\* (:\d+)
IsPort(s) == Len(s) >= 2 /\ s[1] = ":" /\ AllIn(Tail(s), Digits)

\* What `$` accepts after the match: the end of the string, or one newline
\* that ends the string.
DollarBodies(host) ==
    {host} \cup (IF Len(host) >= 1 /\ host[Len(host)] = LF
                 THEN {SubSeq(host, 1, Len(host) - 1)} ELSE {})

\* host_validation_re.match(host)
host_validation_re(host) ==
    \E body \in DollarBodies(host) :
       \E k \in 1..Len(body) :
          /\ IsHostName(SubSeq(body, 1, k)) \/ IsBracketed(SubSeq(body, 1, k))
          /\ k = Len(body) \/ IsPort(SubSeq(body, k + 1, Len(body)))

\* domain[:-1] if domain.endswith('.') else domain
StripTrailingDot(domain) ==
    IF Len(domain) >= 1 /\ domain[Len(domain)] = "."
    THEN SubSeq(domain, 1, Len(domain) - 1)
    ELSE domain

\* host.rsplit(':', 1) and the trailing dot, for the last colon at `colon`
SplitAtColon(host, colon) ==
    IF colon = -1 THEN <<StripTrailingDot(host), <<>>>>
    ELSE <<StripTrailingDot(Slice(host, 0, colon)), From(host, colon + 1)>>

\* split_domain_port after `host = host.lower()`
SplitLowered(host) ==
    IF ~host_validation_re(host) THEN <<<<>>, <<>>>>
    ELSE IF host[Len(host)] = "]" THEN <<host, <<>>>>
    ELSE SplitAtColon(host, RFind(host, <<":">>))

split_domain_port(host) == SplitLowered(Lower(host))

-----------------------------------------------------------------------------
(* LazyStream: the pushback reader parse_request_header wraps around       *)
(* request_stream.                                                         *)

\* settings.MAX_HEADER_SIZE: the size asked of each read
MAX_HEADER_SIZE == 128

\* LazyStream(producer)
LazyStream(producer) == [producer |-> producer, leftover |-> <<>>]

\* LazyStream.read(size): bytes pushed back come first; otherwise the next
\* chunk the producer delivers, cut to size, the rest kept as leftover.
LazyRead(ls, size) ==
    IF ls.leftover # <<>>
    THEN [bytes |-> Slice(ls.leftover, 0, size),
          ls |-> [ls EXCEPT !.leftover = From(ls.leftover, size)]]
    ELSE IF ls.producer = <<>>
    THEN [bytes |-> <<>>, ls |-> ls]
    ELSE [bytes |-> Slice(Head(ls.producer), 0, size),
          ls |-> [producer |-> Tail(ls.producer),
                  leftover |-> From(Head(ls.producer), size)]]

\* LazyStream.unget(bytes)
LazyUnget(ls, bytes) == [ls EXCEPT !.leftover = bytes \o ls.leftover]

-----------------------------------------------------------------------------
(* QueryDict                                                               *)

DEFAULT_CHARSET == "utf-8"

\* A unicode text, as opposed to a byte string (a Python 2 str): the same
\* characters behind a tag.
TextTag == "<u>"

Text(s) == <<TextTag>> \o s

IsText(s) == s # <<>> /\ Head(s) = TextTag

\* The characters of a text or of a byte string
Chars(s) == IF IsText(s) THEN Tail(s) ELSE s

\* QueryDict.__init__: a byte query string is decoded with the encoding, or
\* with iso-8859-1 when that fails; both give one character per byte here.
DecodeQuery(query_string) ==
    IF IsText(query_string) THEN query_string ELSE Text(query_string)

\* Percent-encoding, for the characters query strings are made of here:
\* the characters quote_plus leaves alone, and the escape of each other one.
UrlSafe == {"k", "b", "f", "2", "6", "_", ".", "-"}

Escapes ==
    {<<"=", <<"3", "D">>>>, <<"&", <<"2", "6">>>>, <<"+", <<"2", "B">>>>,
     <<"%", <<"2", "5">>>>, <<"\"", <<"2", "2">>>>,
     <<"b", <<"6", "2">>>>, <<"f", <<"6", "6">>>>}

\* The UTF-8 bytes of the non-ASCII character, percent-encoded
NonAsciiEscape == <<"%", "C", "3", "%", "A", "9">>

\* s with every '+' replaced by a space
RECURSIVE PlusToSpace(_)
PlusToSpace(s) ==
    IF s = <<>> THEN <<>>
    ELSE <<IF Head(s) = "+" THEN " " ELSE Head(s)>> \o PlusToSpace(Tail(s))

\* unquote(s): every escape replaced by its character, anything else kept
RECURSIVE Unquote(_)
Unquote(s) ==
    IF s = <<>> THEN <<>>
    ELSE IF Slice(s, 0, 6) = NonAsciiEscape
    THEN <<NonAsciiByte>> \o Unquote(From(s, 6))
    ELSE IF Head(s) = "%" /\ \E e \in Escapes : e[2] = Slice(s, 1, 3)
    THEN <<(CHOOSE e \in Escapes : e[2] = Slice(s, 1, 3))[1]>>
            \o Unquote(From(s, 3))
    ELSE <<Head(s)>> \o Unquote(Tail(s))

\* A name or value of a field, decoded
FieldText(s) == Text(Unquote(PlusToSpace(s)))

\* limited_parse_qsl(query_string, keep_blank_values=True): the key/value
\* pairs of the '&'-separated fields, each split at its first '=' and
\* decoded.
RECURSIVE QslPairs(_)
QslPairs(fields) ==
    IF fields = <<>> THEN <<>>
    ELSE LET f == Head(fields)
             eq == Find(f, <<"=">>, 0)
             pair == IF eq = -1 THEN <<FieldText(f), Text(<<>>)>>
                     ELSE <<FieldText(Slice(f, 0, eq)),
                            FieldText(From(f, eq + 1))>>
         IN  IF f = <<>> THEN QslPairs(Tail(fields))
             ELSE <<pair>> \o QslPairs(Tail(fields))

limited_parse_qsl(query_string) ==
    QslPairs(Split(Chars(query_string), "&", -1))

\* MultiValueDict.appendlist
MVD_appendlist(d, key, value) ==
    IF key \in DOMAIN d THEN DictSet(d, key, Append(d[key], value))
    ELSE DictSet(d, key, <<value>>)

RECURSIVE AppendAll(_, _)
AppendAll(d, pairs) ==
    IF pairs = <<>> THEN d
    ELSE AppendAll(MVD_appendlist(d, Head(pairs)[1], Head(pairs)[2]), Tail(pairs))

\* QueryDict(query_string, mutable)
QueryDict(query_string, mutable) ==
    [data |-> AppendAll(EmptyDict,
                        limited_parse_qsl(DecodeQuery(query_string))),
     mutable |-> mutable,
     encoding |-> DEFAULT_CHARSET]

\* quote_plus(s) of a byte string
RECURSIVE quote_plus(_)
quote_plus(s) ==
    IF s = <<>> THEN <<>>
    ELSE (IF Head(s) \in UrlSafe THEN <<Head(s)>>
          ELSE IF Head(s) = " " THEN <<"+">>
          ELSE IF Head(s) = NonAsciiByte THEN NonAsciiEscape
          ELSE <<"%">> \o (CHOOSE e \in Escapes : e[1] = Head(s))[2])
            \o quote_plus(Tail(s))

\* str(v) of a text: an implicit ASCII encode
StrRaises(v) == ~EncodesAsAscii(Chars(v))

\* encode(k, v) without safe: urlencode({k: v})
EncodePair(k, v) == quote_plus(Chars(k)) \o <<"=">> \o quote_plus(Chars(v))

\* output.extend(encode(k, v) for v in list_), for one key
RECURSIVE EncodeList(_, _, _)
EncodeList(output, k, list_) ==
    IF output.err # NoError \/ list_ = <<>> THEN output
    ELSE IF StrRaises(Head(list_))
    THEN [output EXCEPT !.err = "UnicodeEncodeError"]
    ELSE EncodeList([output EXCEPT !.out = Append(@, EncodePair(k, Head(list_)))],
                    k, Tail(list_))

\* for k, list_ in self.lists(): ...
RECURSIVE EncodeLists(_, _, _)
EncodeLists(output, data, keys) ==
    IF output.err # NoError \/ keys = {} THEN output
    ELSE LET k == CHOOSE x \in keys : TRUE
         IN  EncodeLists(EncodeList(output, k, data[k]), data, keys \ {k})

\* '&'.join(output)
RECURSIVE JoinAmp(_)
JoinAmp(output) ==
    IF output = <<>> THEN <<>>
    ELSE IF Len(output) = 1 THEN Head(output)
    ELSE Head(output) \o <<"&">> \o JoinAmp(Tail(output))

\* QueryDict.urlencode(): the exception it raises, the pairs, the string
QueryDict_urlencode(data) ==
    [EncodeLists([err |-> NoError, out |-> <<>>, text |-> <<>>], data,
                 DOMAIN data)
       EXCEPT !.text = JoinAmp(EncodeLists([err |-> NoError, out |-> <<>>,
                                            text |-> <<>>], data,
                                           DOMAIN data).out)]

-----------------------------------------------------------------------------
(* HttpRequest                                                             *)

\* Python's None, among byte strings
None == <<"<None>">>

\* A port: the text split_domain_port returned, or a defaulted integer
PortStr(s) == [t |-> "str", n |-> 0, s |-> s]

PortInt(n) == [t |-> "int", n |-> n, s |-> <<>>]

EmptyMeta == [k \in {} |-> <<>>]

\* HttpRequest.__init__.  GET_set is whether the attribute GET exists,
\* encoding the instance attribute of that name ("unset" while the instance
\* has none), encoding_attr the attribute _encoding.
NewRequest ==
    [method |-> None, scheme |-> <<>>, host |-> <<>>, port |-> PortStr(<<>>),
     path |-> <<>>, protocol_info |-> <<>>, content_type |-> None,
     META |-> EmptyMeta, GET |-> QueryDict(<<>>, TRUE), GET_set |-> TRUE,
     encoding |-> "unset", encoding_attr |-> DEFAULT_CHARSET]

HostKey == <<"H", "o", "s", "t">>

ContentTypeKey == <<"C","o","n","t","e","n","t","-","T","y","p","e">>

UNKNOWN == <<"U","N","K","N","O","W","N">>

HTTPS == <<"h","t","t","p","s">>

HTTP == <<"h","t","t","p">>

\* The port for a host token that carries none.
DefaultPort(scheme) ==
    IF Lower(scheme) = HTTPS THEN PortInt(443)
    ELSE IF Lower(scheme) = HTTP THEN PortInt(80)
    ELSE PortInt(65536)

\* self.META once the query string and the headers are stored in it
MetaWith(meta, qs, headers) ==
    [k \in (DOMAIN meta) \cup {"QUERY_STRING", "REQUEST_HEADERS"} |->
        IF k = "QUERY_STRING" THEN qs
        ELSE IF k = "REQUEST_HEADERS" THEN headers
        ELSE meta[k]]

\* self.GET for query string qs
GetFor(qs) ==
    IF qs # <<>> THEN QueryDict(qs, FALSE) ELSE QueryDict(<<>>, TRUE)

\* From `del request_headers['Content-Type']` to the end, on request r1.
PopulateMeta(r1, qs, request_headers) ==
    IF ContentTypeKey \notin DOMAIN request_headers
    THEN [err |-> "KeyError", req |-> r1]
    ELSE [err |-> NoError,
          req |-> [r1 EXCEPT
                     !.GET = GetFor(qs),
                     !.GET_set = TRUE,
                     !.META = MetaWith(r1.META, qs,
                                       DictDel(request_headers, ContentTypeKey))]]

\* The port for what split_domain_port returned
PortFor(port, scheme) ==
    IF port = <<>> THEN DefaultPort(scheme) ELSE PortStr(port)

\* The scheme reported for the request-target's scheme
SchemeFor(scheme) == IF scheme # <<>> THEN Lower(scheme) ELSE UNKNOWN

\* From `#scheme` on: host is the resolved host token, request_headers what
\* is left of the headers.
PopulateFields(r, meta_dict, request_headers, hp) ==
    PopulateMeta(
        [r EXCEPT !.scheme = SchemeFor(meta_dict.SCHEME),
                  !.host = hp[1],
                  !.port = PortFor(hp[2], meta_dict.SCHEME),
                  !.method = meta_dict.METHOD,
                  !.path = meta_dict.PATH,
                  !.protocol_info = meta_dict.PROTO_INFO,
                  !.content_type = MVD_get(request_headers, ContentTypeKey, None)],
        meta_dict.QUERY_STRING, request_headers)

\* "populate the properties and META info": the assignments that follow the
\* tokenizers in parse_request_header, on request r.
Populate(r, meta_dict, request_headers) ==
    IF meta_dict.DOMAIN_ # <<>>
    THEN PopulateFields(r, meta_dict, request_headers,
                        split_domain_port(meta_dict.DOMAIN_))
    ELSE IF HostKey \in DOMAIN request_headers
    THEN PopulateFields(r, meta_dict, DictDel(request_headers, HostKey),
                        split_domain_port(MVD_getitem(request_headers, HostKey)))
    ELSE [err |-> "NoHostFoundException", req |-> r]

\* One pass of the chunk loop, for the chunk just read.
RECURSIVE ScanLoop(_, _)
ScanChunk(ls, request_header, chunk, request_header_end) ==
    IF chunk = <<>>
    THEN [request_header_end |-> -1, request_header |-> request_header,
          chunk |-> chunk, ls |-> ls]
    ELSE IF request_header_end # -1
    THEN [request_header_end |-> request_header_end,
          request_header |->
              request_header \o Slice(chunk, 0, request_header_end),
          chunk |-> chunk, ls |-> ls]
    ELSE ScanLoop(ls, request_header \o chunk)

ScanRead(request_header, rd) ==
    ScanChunk(rd.ls, request_header, rd.bytes, Find(rd.bytes, CRLFCRLF, 0))

\* "read until we find a '\r\n\r\n' sequence": the chunk loop.
ScanLoop(ls, request_header) ==
    ScanRead(request_header, LazyRead(ls, MAX_HEADER_SIZE))

\* ScanFails with the sanity check left out.
ScanFails_Never(request_header_end) == FALSE

\* "sanity check": whether the scan ends the parse with InvalidHttpRequest
ScanFails(request_header_end) == request_header_end = -1

NoScan ==
    [found |-> FALSE, request_header |-> <<>>, ungot |-> <<>>,
     chunks |-> <<>>, stage |-> "none", err |-> NoError]

\* What a parse_request_header call leaves: the exception it ends with, the
\* request, the producer, and its locals.
Outcome(err, r, ls, locals, stage) ==
    [err |-> err, req |-> r, producer |-> ls.producer,
     scan |-> [locals EXCEPT !.stage = stage, !.err = err]]

\* parse_request_header once the fields are populated
AfterPopulate(ls, locals, pop) ==
    Outcome(pop.err, pop.req, ls, locals,
            IF pop.err = NoError THEN "done" ELSE "populate")

\* parse_request_header from `meta_dict = parse_request_line(request_line)`
AfterLine(r, ls, locals, hd, ln) ==
    IF ln.err # NoError THEN Outcome(ln.err, r, ls, locals, "line")
    ELSE AfterPopulate(ls, locals,
                       Populate(r, ln.meta_dict, hd.request_headers))

\* parse_request_header from `parse_request_headers(request_header)`
AfterHeaders(r, ls, locals, hd) ==
    IF hd.err # NoError THEN Outcome(hd.err, r, ls, locals, "headers")
    ELSE AfterLine(r, ls, locals, hd, parse_request_line(hd.request_line))

\* parse_request_header from `request_header_stream.unget(...)`
AfterUnget(r, request_header, ls, locals) ==
    AfterHeaders(r, ls, locals, parse_request_headers(request_header))

\* parse_request_header from `request_header += b'\r\n'`, after the chunk
\* loop ended with sc
AfterScan(r, producer, sc) ==
    IF ScanFails(sc.request_header_end)
    THEN Outcome("InvalidHttpRequest", r, sc.ls,
                 [found |-> FALSE, request_header |-> sc.request_header,
                  ungot |-> <<>>, chunks |-> producer, stage |-> "scan",
                  err |-> NoError],
                 "scan")
    ELSE AfterUnget(r, sc.request_header \o CRLF,
                    LazyUnget(sc.ls, From(sc.chunk, sc.request_header_end + 4)),
                    [found |-> TRUE, request_header |-> sc.request_header,
                     ungot |-> From(sc.chunk, sc.request_header_end + 4),
                     chunks |-> producer, stage |-> "scan", err |-> NoError])

\* parse_request_header on request r reading from producer
parse_request_header(r, producer) ==
    AfterScan(r, producer, ScanLoop(LazyStream(producer), <<>>))

-----------------------------------------------------------------------------
(* MultiValueDict and QueryDict as objects.  The lists a dict holds are    *)
(* objects of their own in a store, so that two dicts can hold one list:   *)
(* a dict maps each key to the place of its list in the store.             *)

NoDict ==
    [cls |-> "none", refs |-> EmptyDict, mutable |-> FALSE,
     encoding |-> DEFAULT_CHARSET]

\* The lists dict o holds in store h, by key: o.lists()
Lists(h, o) == [k \in DOMAIN o.refs |-> h[o.refs[k]]]

\* What a method call leaves: the store, the dict, the exception it raised
\* and, for a method that returns a list object, the place of that list.
Returned(h, o, ref) == [heap |-> h, obj |-> o, err |-> NoError, ref |-> ref]

Raised(h, o, err) == [heap |-> h, obj |-> o, err |-> err, ref |-> 0]

\* dict.__setitem__(self, key, list_) for a list object made on the spot
StoreNew(h, o, key, list_) ==
    Returned(Append(h, list_),
             [o EXCEPT !.refs = DictSet(@, key, Len(h) + 1)], Len(h) + 1)

\* dict.__delitem__(self, key) and dict.pop(self, key)
DictRemove(h, o, key) ==
    IF key \notin DOMAIN o.refs THEN Raised(h, o, "KeyError")
    ELSE Returned(h, [o EXCEPT !.refs = DictDel(@, key)], o.refs[key])

\* dict.clear(self)
DictClear(h, o) == Returned(h, [o EXCEPT !.refs = EmptyDict], 0)

\* list.extend(values) on the list object at ref
ListExtend(h, ref, values) == [h EXCEPT ![ref] = @ \o values]

\* The potential_list / default_list argument: None, a list, or one value
NoneArg == [t |-> "None", v |-> <<>>]

ListArg(list_) == [t |-> "list", v |-> list_]

\* (one value is held in v as its only element)
ValueArg(value) == [t |-> "value", v |-> <<value>>]

\* bytes_to_text(s, encoding): a byte string goes to str(s, encoding,
\* 'replace'), which Python 2's str() rejects; anything else is returned.
bytes_to_text_raises(s) == s # None /\ ~IsText(s)

RECURSIVE AnyBytes(_)
AnyBytes(list_) ==
    IF list_ = <<>> THEN FALSE
    ELSE bytes_to_text_raises(Head(list_)) \/ AnyBytes(Tail(list_))

\* MultiValueDict.__setitem__
MultiValueDict_setitem(h, o, key, value) == StoreNew(h, o, key, <<value>>)

\* QueryDict.__setitem__
QueryDict_setitem(h, o, key, value) ==
    IF ~o.mutable THEN Raised(h, o, "AttributeError")
    ELSE IF bytes_to_text_raises(key) \/ bytes_to_text_raises(value)
    THEN Raised(h, o, "TypeError")
    ELSE MultiValueDict_setitem(h, o, key, value)

\* self[key] = value
Self_setitem(h, o, key, value) ==
    IF o.cls = "QueryDict" THEN QueryDict_setitem(h, o, key, value)
    ELSE MultiValueDict_setitem(h, o, key, value)

\* QueryDict.__delitem__ ; MultiValueDict has dict's
Self_delitem(h, o, key) ==
    IF o.cls = "QueryDict" /\ ~o.mutable THEN Raised(h, o, "AttributeError")
    ELSE DictRemove(h, o, key)

\* MultiValueDict.setlist
MultiValueDict_setlist(h, o, key, potential_list) ==
    StoreNew(h, o, key,
             IF potential_list.t = "None" THEN <<>>
             ELSE IF potential_list.t = "list" THEN potential_list.v
             ELSE <<potential_list.v[1]>>)

\* QueryDict.setlist, for list_ a list or None
QueryDict_setlist(h, o, key, list_) ==
    IF ~o.mutable THEN Raised(h, o, "AttributeError")
    ELSE IF bytes_to_text_raises(key) \/ list_.t = "None"
    THEN Raised(h, o, "TypeError")
    ELSE IF AnyBytes(list_.v) THEN Raised(h, o, "TypeError")
    ELSE MultiValueDict_setlist(h, o, key, list_)

\* self.setlist(key, list_)
Self_setlist(h, o, key, list_) ==
    IF o.cls = "QueryDict" THEN QueryDict_setlist(h, o, key, list_)
    ELSE MultiValueDict_setlist(h, o, key, list_)

\* MultiValueDict.setlistdefault: returns the list object of key
MultiValueDict_setlistdefault(h, o, key, default_list) ==
    IF key \in DOMAIN o.refs THEN Returned(h, o, o.refs[key])
    ELSE Self_setlist(h, o, key,
                      IF default_list.t = "None" THEN ListArg(<<>>)
                      ELSE default_list)

\* self.setlistdefault(key, default_list), QueryDict's checking _mutable
Self_setlistdefault(h, o, key, default_list) ==
    IF o.cls = "QueryDict" /\ ~o.mutable THEN Raised(h, o, "AttributeError")
    ELSE MultiValueDict_setlistdefault(h, o, key, default_list)

\* list.extend(values) on the list setlistdefault returned in got
ExtendGot(got, values) ==
    IF got.err # NoError THEN got
    ELSE Returned(ListExtend(got.heap, got.ref, values), got.obj, got.ref)

\* appendlist putting the value in place of the list.
MultiValueDict_appendlist_Replacing(h, o, key, value) ==
    StoreNew(h, o, key, <<value>>)

\* MultiValueDict.appendlist
MultiValueDict_appendlist(h, o, key, value) ==
    ExtendGot(Self_setlistdefault(h, o, key, NoneArg), <<value>>)

\* QueryDict.appendlist
QueryDict_appendlist(h, o, key, value) ==
    IF ~o.mutable THEN Raised(h, o, "AttributeError")
    ELSE IF bytes_to_text_raises(key) \/ bytes_to_text_raises(value)
    THEN Raised(h, o, "TypeError")
    ELSE MultiValueDict_appendlist(h, o, key, value)

Self_appendlist(h, o, key, value) ==
    IF o.cls = "QueryDict" THEN QueryDict_appendlist(h, o, key, value)
    ELSE MultiValueDict_appendlist(h, o, key, value)

\* MultiValueDict.setdefault
MultiValueDict_setdefault(h, o, key, default) ==
    IF key \in DOMAIN o.refs THEN Returned(h, o, o.refs[key])
    ELSE Self_setitem(h, o, key, default)

\* QueryDict.setdefault
QueryDict_setdefault(h, o, key, default) ==
    IF ~o.mutable THEN Raised(h, o, "AttributeError")
    ELSE IF bytes_to_text_raises(key) \/ bytes_to_text_raises(default)
    THEN Raised(h, o, "TypeError")
    ELSE MultiValueDict_setdefault(h, o, key, default)

Self_setdefault(h, o, key, default) ==
    IF o.cls = "QueryDict" THEN QueryDict_setdefault(h, o, key, default)
    ELSE MultiValueDict_setdefault(h, o, key, default)

\* MultiValueDict.update(other): other is a MultiValueDict (items are
\* key, list pairs, each list extending the key's) or a dict (items are key,
\* value pairs, each value appended), visited in order.
RECURSIVE UpdateItems(_, _, _)
UpdateItems(got, items, is_mvd) ==
    IF got.err # NoError \/ items = <<>> THEN got
    ELSE UpdateItems(
            ExtendGot(Self_setlistdefault(got.heap, got.obj, Head(items)[1],
                                          NoneArg),
                      IF is_mvd THEN Head(items)[2] ELSE <<Head(items)[2]>>),
            Tail(items), is_mvd)

MultiValueDict_update(h, o, other) ==
    UpdateItems(Returned(h, o, 0), other.items, other.t = "MultiValueDict")

\* QueryDict.pop ; MultiValueDict has dict's
Self_pop(h, o, key) ==
    IF o.cls = "QueryDict" /\ ~o.mutable THEN Raised(h, o, "AttributeError")
    ELSE DictRemove(h, o, key)

\* QueryDict.popitem ; MultiValueDict has dict's.  key is the item the dict
\* gives up.
Self_popitem(h, o, key) ==
    IF o.cls = "QueryDict" /\ ~o.mutable THEN Raised(h, o, "AttributeError")
    ELSE DictRemove(h, o, key)

\* QueryDict.clear ; MultiValueDict has dict's
Self_clear(h, o) ==
    IF o.cls = "QueryDict" /\ ~o.mutable THEN Raised(h, o, "AttributeError")
    ELSE DictClear(h, o)

\* MultiValueDict(key_to_list_mapping): the dict takes the mapping's lists
RECURSIVE StoreAll(_, _, _)
StoreAll(got, mapping, keys) ==
    IF keys = {} THEN got
    ELSE LET k == CHOOSE x \in keys : TRUE
         IN  StoreAll(StoreNew(got.heap, got.obj, k, mapping[k]), mapping,
                      keys \ {k})

MultiValueDict_init(h, key_to_list_mapping) ==
    StoreAll(Returned(h, [NoDict EXCEPT !.cls = "MultiValueDict",
                                        !.mutable = TRUE], 0),
             key_to_list_mapping, DOMAIN key_to_list_mapping)

\* QueryDict.__init__(query_string, mutable, encoding)
QueryDict_init(h, query_string, mutable, encoding) ==
    [StoreAll(Returned(h, [NoDict EXCEPT !.cls = "QueryDict",
                                         !.encoding = encoding], 0),
              QueryDict(query_string, mutable).data,
              DOMAIN QueryDict(query_string, mutable).data)
       EXCEPT !.obj.mutable = mutable]

\* for key, value in self.lists(): result.setlist(key, value)
RECURSIVE SetLists(_, _, _)
SetLists(got, lists, keys) ==
    IF got.err # NoError \/ keys = {} THEN got
    ELSE LET k == CHOOSE x \in keys : TRUE
         IN  SetLists(Self_setlist(got.heap, got.obj, k, ListArg(lists[k])),
                      lists, keys \ {k})

\* QueryDict.__deepcopy__: a mutable QueryDict of the same encoding, given
\* each list of self by setlist
QueryDict_deepcopy(h, o) ==
    SetLists(QueryDict_init(h, <<>>, TRUE, o.encoding), Lists(h, o),
             DOMAIN o.refs)

\* QueryDict.copy
QueryDict_copy(h, o) == QueryDict_deepcopy(h, o)

\* The keys and values the dicts are exercised with: texts, and one byte
\* string of each
KeyA == Text(<<"a">>)

KeyB == Text(<<"b">>)

ByteKey == <<"a">>

Value1 == Text(<<"1">>)

Value2 == Text(<<"2">>)

ByteValue == <<"1">>

DictKeys == {KeyA, KeyB}

\* No appendlist has been followed for any key.
NoAppends == [k \in DictKeys |-> [ok |-> FALSE, vals |-> <<>>]]

\* What is recorded of the calls on dct and cpy: the number of calls, the last
\* call and the exception it raised, the lists of dct as constructed, the
\* lists at the time of the copy, whether either had a mutator called since,
\* and per key the values appended since the key was absent.
NoHist ==
    [n |-> 0, op |-> "none", tgt |-> "d", err |-> NoError, empty_arg |-> FALSE,
     made |-> EmptyDict, copied |-> FALSE, snap |-> EmptyDict,
     d_called |-> FALSE, c_called |-> FALSE, app |-> NoAppends]

NoDicts == heap = <<>> /\ dct = NoDict /\ cpy = NoDict /\ hist = NoHist

-----------------------------------------------------------------------------
(* The body: read(), readline(), the body property and                     *)
(* _load_post_and_files.  They work on the attributes _read_started,       *)
(* _stream and _body, held here in one record together with the byte       *)
(* source and the count of reads made on it.                               *)

\* The configured ceiling of a body held in memory
DATA_UPLOAD_MAX_MEMORY_SIZE == 2621440

POST_ == <<"P","O","S","T">>

GET_ == <<"G","E","T">>

MULTIPART_FORM_DATA ==
    <<"m","u","l","t","i","p","a","r","t","/","f","o","r","m","-","d","a",
      "t","a">>

FORM_URLENCODED ==
    <<"a","p","p","l","i","c","a","t","i","o","n","/","x","-","w","w","w",
      "-","f","o","r","m","-","u","r","l","e","n","c","o","d","e","d">>

ContentLengthKey ==
    <<"C","o","n","t","e","n","t","-","L","e","n","g","t","h">>

\* self._body before the body is buffered
NoBodyAttr == [set |-> FALSE, bytes |-> <<>>, io |-> <<>>]

\* The chunks left of a source once its first n bytes are taken
RECURSIVE DropBytes(_, _)
DropBytes(chunks, n) ==
    IF n = 0 \/ chunks = <<>> THEN chunks
    ELSE IF Len(Head(chunks)) <= n
    THEN DropBytes(Tail(chunks), n - Len(Head(chunks)))
    ELSE <<From(Head(chunks), n)>> \o Tail(chunks)

\* How many bytes read() (whole) or readline() takes of bytes
TakeLen(bytes, whole) ==
    IF whole \/ Find(bytes, <<LF>>, 0) < 0 THEN Len(bytes)
    ELSE Find(bytes, <<LF>>, 0) + 1

\* self._stream.read() or self._stream.readline() on a BytesIO of the body
BytesIORead(a, n) ==
    [err |-> NoError, ret |-> Slice(a.body.io, 0, n),
     attrs |-> [a EXCEPT !.body.io = From(a.body.io, n)]]

\* self._stream.read() or self._stream.readline() on request_stream
SourceRead(a, bytes, n) ==
    [err |-> NoError, ret |-> Slice(bytes, 0, n),
     attrs |-> [a EXCEPT !.source = DropBytes(a.source, n),
                         !.nread = a.nread + 1]]

\* self._stream.read(*args) / self._stream.readline(*args)
StreamTake(a, whole) ==
    IF a.stream = "unset"
    THEN [err |-> "AttributeError", ret |-> <<>>, attrs |-> a]
    ELSE IF a.stream = "BytesIO"
    THEN BytesIORead(a, TakeLen(a.body.io, whole))
    ELSE SourceRead(a, Flatten(a.source), TakeLen(Flatten(a.source), whole))

\* HttpRequest.read
HttpRequest_read(a) == StreamTake([a EXCEPT !.read_started = "True"], TRUE)

\* HttpRequest.readline
HttpRequest_readline(a) ==
    StreamTake([a EXCEPT !.read_started = "True"], FALSE)

DigitOrder == <<"0","1","2","3","4","5","6","7","8","9">>

DigitValue(c) == (CHOOSE i \in 1..10 : DigitOrder[i] = c) - 1

\* int(s) of a string of digits
RECURSIVE IntOf(_)
IntOf(s) ==
    IF s = <<>> THEN 0
    ELSE 10 * IntOf(SubSeq(s, 1, Len(s) - 1)) + DigitValue(s[Len(s)])

\* int(self.META.get('CONTENT_LENGTH') or 0)
ContentLength(META) ==
    IF "CONTENT_LENGTH" \notin DOMAIN META THEN 0
    ELSE IF META["CONTENT_LENGTH"] = <<>> THEN 0
    ELSE IntOf(META["CONTENT_LENGTH"])

\* body: self._body = self.read(); self._stream = BytesIO(self._body)
BufferBody(rd) ==
    IF rd.err # NoError THEN rd
    ELSE [err |-> NoError, ret |-> rd.ret,
          attrs |-> [rd.attrs EXCEPT
                       !.body = [set |-> TRUE, bytes |-> rd.ret,
                                 io |-> rd.ret],
                       !.stream = "BytesIO"]]

\* The body property, on a request with fields r and attributes a
HttpRequest_body(r, a) ==
    IF a.body.set THEN [err |-> NoError, ret |-> a.body.bytes, attrs |-> a]
    ELSE IF a.read_started = "unset"
    THEN [err |-> "AttributeError", ret |-> <<>>, attrs |-> a]
    ELSE IF a.read_started = "True"
    THEN [err |-> "RawPostDataException", ret |-> <<>>, attrs |-> a]
    ELSE IF ContentLength(r.META) > DATA_UPLOAD_MAX_MEMORY_SIZE
    THEN [err |-> "RequestDataTooBig", ret |-> <<>>, attrs |-> a]
    ELSE BufferBody(HttpRequest_read(a))

\* An attribute not yet set, and one holding a dict
NoAttr == [set |-> FALSE, dict |-> EmptyDict]

AttrOf(dict) == [set |-> TRUE, dict |-> dict]

\* self.POST as __init__ leaves it; self._post and self._files are not set.
\* route tells which branch of _load_post_and_files set them last, called
\* whether the last _load_post_and_files call called the multipart decoder,
\* failed whether the decoder has raised MultiPartParserError so far.
NewForm ==
    [POST |-> QueryDict(<<>>, TRUE).data, post |-> NoAttr, files |-> NoAttr,
     route |-> "none", called |-> FALSE, failed |-> FALSE]

\* self._post, self._files = QueryDict(...), MultiValueDict()
FormSet(f, post, route) ==
    [f EXCEPT !.post = AttrOf(post.data), !.files = AttrOf(EmptyDict),
              !.route = route]

\* HttpRequest._mark_post_parse_error
mark_post_parse_error(f) == FormSet(f, QueryDict(<<>>, FALSE), "error")

\* What _load_post_and_files leaves: the exception it ends with, the
\* attributes and the form dicts
Left(err, a, f) ==
    [err |-> err, ret |-> <<>>, attrs |-> a,
     form |-> [f EXCEPT !.called = FALSE]]

\* The same, left by a call that went to the multipart decoder
LeftByDecoder(err, a, f) ==
    [err |-> err, ret |-> <<>>, attrs |-> a,
     form |-> [f EXCEPT !.called = TRUE,
                        !.failed = @ \/ err = "MultiPartParserError"]]

\* What the multipart decoder leaves once it has read its input: the pair
\* it decoded (not modelled further), or MultiPartParserError.
Decoded(rd, f, ok) ==
    IF rd.err # NoError THEN LeftByDecoder(rd.err, rd.attrs, f)
    ELSE IF ok
    THEN LeftByDecoder(NoError, rd.attrs,
                       FormSet(f, QueryDict(<<>>, FALSE), "multipart"))
    ELSE LeftByDecoder("MultiPartParserError", rd.attrs,
                       mark_post_parse_error(f))

\* The multipart branch: data is BytesIO(self._body) or the request itself,
\* which the decoder reads to its end.
LoadMultipart(a, f, ok) ==
    IF a.body.set
    THEN Decoded([err |-> NoError, ret |-> a.body.bytes, attrs |-> a], f, ok)
    ELSE Decoded(HttpRequest_read(a), f, ok)

\* The urlencoded branch: QueryDict(self.body, encoding=self._encoding)
LoadUrlencoded(b, f) ==
    IF b.err # NoError THEN Left(b.err, b.attrs, f)
    ELSE Left(NoError, b.attrs,
              FormSet(f, QueryDict(b.ret, FALSE), "urlencoded"))

\* _load_post_and_files from `if self.content_type == ...` on
LoadByType(r, a, f, ok) ==
    IF r.content_type = MULTIPART_FORM_DATA THEN LoadMultipart(a, f, ok)
    ELSE IF r.content_type = FORM_URLENCODED
    THEN LoadUrlencoded(HttpRequest_body(r, a), f)
    ELSE Left(NoError, a, FormSet(f, QueryDict(<<>>, FALSE), "empty"))

\* HttpRequest._load_post_and_files; ok is whether the multipart decoder,
\* if it is called, decodes its input.
load_post_and_files(r, a, f, ok) ==
    IF r.method # POST_
    THEN Left(NoError, a, FormSet(f, QueryDict(<<>>, FALSE), "empty"))
    ELSE IF a.read_started = "unset" THEN Left("AttributeError", a, f)
    ELSE IF a.read_started = "True" /\ ~a.body.set
    THEN Left(NoError, a, mark_post_parse_error(f))
    ELSE LoadByType(r, a, f, ok)

\* The encoding property read: the instance attribute if there is one, else
\* what the getter returns
HttpRequest_encoding(r) ==
    IF r.encoding # "unset" THEN r.encoding ELSE r.encoding_attr

\* What `last` keeps of the fields and attributes a call found or left
Seen(r, a, f) ==
    [method |-> r.method, content_type |-> r.content_type, META |-> r.META,
     read_started |-> a.read_started, stream |-> a.stream,
     body_set |-> a.body.set, nread |-> a.nread, failed |-> f.failed,
     encoding |-> HttpRequest_encoding(r)]

\* The record of a call: what it found, what it raised or returned, what
\* it left
CallOf(op, r, a, f, res, left) ==
    [op |-> op, err |-> res.err, ret |-> res.ret, before |-> Seen(r, a, f),
     after |-> Seen(r, res.attrs, left), got |-> QueryDict(<<>>, FALSE)]

NoLast ==
    [op |-> "none", err |-> NoError, ret |-> <<>>,
     before |-> Seen(NewRequest,
                     [read_started |-> "unset", stream |-> "unset",
                      body |-> NoBodyAttr, nread |-> 0], NewForm),
     after |-> Seen(NewRequest,
                    [read_started |-> "unset", stream |-> "unset",
                     body |-> NoBodyAttr, nread |-> 0], NewForm),
     got |-> QueryDict(<<>>, FALSE)]

\* request_stream is the one the request was constructed on
NoRepoint == [done |-> FALSE, nparse |-> 0, req |-> NewRequest]

NoBody ==
    /\ body_attr = NoBodyAttr
    /\ form = NewForm
    /\ nread = 0
    /\ last = NoLast
    /\ repoint = NoRepoint

-----------------------------------------------------------------------------
(* The byte streams the request is constructed on.                         *)

\* The spec's end-to-end example: an origin-form GET with a Host header.
StreamGetQuery ==
    <<"G","E","T"," ","/","p","?","q","=","1","&","q","=","2"," ","H",
      "T","T","P","/","1",".","1","\r","\n","H","o","s","t",":"," ","e",
      "x","a","m","p","l","e",".","c","o","m","\r","\n","\r","\n">>

\* An origin-form target and no Host header.
StreamNoHost ==
    <<"G","E","T"," ","/","p"," ","H","T","T","P","/","1",".","1","\r",
      "\n","A","c","c","e","p","t",":"," ","a","\r","\n","\r","\n">>

\* An absolute-form POST with Host, Content-Type, another header and a body.
StreamAbsolutePost ==
    <<"P","O","S","T"," ","h","t","t","p",":","/","/","b",".","c","/",
      "p"," ","H","T","T","P","/","1",".","1","\r","\n","H","o","s","t",
      ":"," ","a","\r","\n","C","o","n","t","e","n","t","-","T","y","p",
      "e",":"," ","t","\r","\n","X",":"," ","1","\r","\n","\r","\n","k",
      "=","v">>

\* An origin-form POST with Host, Content-Type, another header and a body.
StreamOriginPost ==
    <<"P","O","S","T"," ","/","p"," ","H","T","T","P","/","1",".","1",
      "\r","\n","H","o","s","t",":"," ","a","\r","\n","C","o","n","t",
      "e","n","t","-","T","y","p","e",":"," ","t","\r","\n","X",":"," ",
      "1","\r","\n","\r","\n","k","=","v">>

\* A first header line without a colon.
StreamNoColon ==
    <<"G","E","T"," ","/","p"," ","H","T","T","P","/","1",".","1","\r",
      "\n","H","o","s","t","\r","\n","\r","\n">>

\* A request line of two tokens.
StreamTwoTokens ==
    <<"G","E","T"," ","/","p","\r","\n","H","o","s","t",":"," ","a",
      "\r","\n","\r","\n">>

NamedStreams ==
    {StreamGetQuery, StreamNoHost, StreamAbsolutePost, StreamOriginPost,
     StreamNoColon, StreamTwoTokens}

ScanAlphabet == {CR, LF, "a"}

\* All sequences over S of length at most n.
RECURSIVE SeqsUpTo(_, _)
SeqsUpTo(S, n) ==
    IF n = 0 THEN {<<>>}
    ELSE LET shorter == SeqsUpTo(S, n - 1)
         IN  shorter \cup {Append(t, c) : t \in shorter, c \in S}

Streams == SeqsUpTo(ScanAlphabet, MaxStreamLen) \cup NamedStreams

\* Where the transport may cut stream s into chunks: anywhere in a short
\* stream, around the first separator in a long one.
CutPoints(s) ==
    IF Len(s) <= MaxStreamLen + 1 THEN 1..(Len(s) - 1)
    ELSE LET sep == Find(s, CRLFCRLF, 0)
         IN  IF sep = -1 THEN {Len(s) \div 2}
             ELSE {p \in 1..(Len(s) - 1) : sep <= p /\ p <= sep + 4}

CutSets(s) == {c \in SUBSET CutPoints(s) : Cardinality(c) <= MaxCuts}

\* The chunks of s from offset start on, cut at the offsets in cuts.
RECURSIVE ChunksFrom(_, _, _)
ChunksFrom(s, cuts, start) ==
    LET later == {c \in cuts : c > start}
    IN  IF start >= Len(s) THEN <<>>
        ELSE IF later = {} THEN <<From(s, start)>>
        ELSE LET c == CHOOSE x \in later : \A y \in later : x <= y
             IN  <<Slice(s, start, c)>> \o ChunksFrom(s, cuts, c)

NoRead == [done |-> FALSE, bytes |-> <<>>]

NoCall ==
    [fn |-> "none", arg |-> <<>>, lines |-> <<>>, done |-> FALSE, ret |-> <<>>]

\* HttpRequest(request_stream), for every stream and every delivery of it.
Init ==
    /\ \E s \in Streams : \E cuts \in CutSets(s) :
          /\ orig = s
          /\ source = ChunksFrom(s, cuts, 0)
    /\ req = NewRequest
    /\ stream_attr = "unset"
    /\ read_started = "unset"
    /\ raised = NoError
    /\ scan = NoScan
    /\ readout = NoRead
    /\ nparse = 0
    /\ call = NoCall
    /\ NoDicts
    /\ NoBody

\* HttpRequest.parse_request_header()
ParseRequestHeader ==
    /\ nparse < MaxParses
    /\ \E res \in {parse_request_header(req, source)} :
           /\ source' = res.producer
           /\ req' = res.req
           /\ raised' = res.err
           /\ scan' = res.scan
    /\ nparse' = nparse + 1
    /\ UNCHANGED <<orig, stream_attr, read_started, readout, call, dictvars,
                   bodyvars>>

\* The owner of the request points self._stream at the request's byte source.
AttachStream ==
    /\ stream_attr = "unset"
    /\ stream_attr' = "request_stream"
    /\ UNCHANGED <<source, orig, req, read_started, raised, scan, readout,
                   nparse, call, dictvars, bodyvars>>

\* The attributes read(), readline(), body and _load_post_and_files use
Attrs ==
    [read_started |-> read_started, stream |-> stream_attr,
     body |-> body_attr, source |-> source, nread |-> nread]

\* The attributes as a call leaves them
Put(a) ==
    /\ read_started' = a.read_started
    /\ stream_attr' = a.stream
    /\ body_attr' = a.body
    /\ source' = a.source
    /\ nread' = a.nread

\* What read() has returned so far, once rd is returned
ReadOut(rd) ==
    IF rd.err # NoError THEN readout
    ELSE [done |-> TRUE, bytes |-> readout.bytes \o rd.ret]

\* HttpRequest.read(): everything self._stream still holds.
Read ==
    /\ nread < MaxReads
    /\ \E rd \in {HttpRequest_read(Attrs)} :
          /\ Put(rd.attrs)
          /\ raised' = rd.err
          /\ readout' = ReadOut(rd)
    /\ UNCHANGED <<orig, req, scan, nparse, call, dictvars, form, last,
                   repoint>>

Next == ParseRequestHeader \/ AttachStream \/ Read

Spec == Init /\ [][Next]_vars

-----------------------------------------------------------------------------
(* The request and its body: the owner of the request assigns its public  *)
(* fields and prepares _read_started and _stream, then the body is read,   *)
(* accessed and dispatched.                                                *)

\* A body of form fields
FormBody == <<"a","=","1","&","a","=","2","&","b","=","3">>

\* A body of two lines
TextBody == <<"x","\n","y">>

BodyStreams == {StreamOriginPost, FormBody, TextBody}

MultipartWithBoundary ==
    <<"m","u","l","t","i","p","a","r","t","/","f","o","r","m","-","d","a",
      "t","a",";"," ","b","o","u","n","d","a","r","y","=","x">>

MultipartMixed ==
    <<"m","u","l","t","i","p","a","r","t","/","m","i","x","e","d">>

TextPlain == <<"t","e","x","t","/","p","l","a","i","n">>

ContentTypes ==
    {MULTIPART_FORM_DATA, MultipartWithBoundary, MultipartMixed,
     FORM_URLENCODED, TextPlain}

\* A declared length above the ceiling, and one below it
LengthOver == <<"2","6","2","1","4","4","1">>

LengthUnder == <<"1","1">>

\* self.META as parse_request_header stores the headers in it, for a
\* request with the one header Content-Length
MetaDeclaring(length) ==
    MetaWith(EmptyMeta, <<>>, DictSet(EmptyDict, ContentLengthKey, <<length>>))

\* self.META with the key CONTENT_LENGTH
MetaKeyed(length) ==
    [k \in {"CONTENT_LENGTH"} |-> length]

Metas ==
    {EmptyMeta, MetaDeclaring(LengthOver), MetaDeclaring(LengthUnder),
     MetaKeyed(LengthOver)}

InitBody ==
    /\ \E s \in BodyStreams :
          /\ orig = s
          /\ source = <<s>>
    /\ req = NewRequest
    /\ stream_attr = "unset"
    /\ read_started = "unset"
    /\ raised = NoError
    /\ scan = NoScan
    /\ readout = NoRead
    /\ nparse = 0
    /\ call = NoCall
    /\ NoDicts
    /\ NoBody

\* The owner of the request assigns its public fields, once.
AssignFields ==
    /\ req.method = None
    /\ \E method \in {GET_, POST_} : \E content_type \in ContentTypes :
       \E META \in Metas :
          req' = [req EXCEPT !.method = method,
                             !.content_type = content_type,
                             !.META = META]
    /\ UNCHANGED <<source, orig, stream_attr, read_started, raised, scan,
                   readout, nparse, call, dictvars, bodyvars>>

\* The owner of the request sets self._read_started = False.
InitReadStarted ==
    /\ read_started = "unset"
    /\ read_started' = "False"
    /\ UNCHANGED <<source, orig, req, stream_attr, raised, scan, readout,
                   nparse, call, dictvars, bodyvars>>

\* HttpRequest.readline()
Readline ==
    /\ nread < MaxReads
    /\ \E rd \in {HttpRequest_readline(Attrs)} :
          /\ Put(rd.attrs)
          /\ raised' = rd.err
          /\ readout' = ReadOut(rd)
    /\ UNCHANGED <<orig, req, scan, nparse, call, dictvars, form, last,
                   repoint>>

\* An access to the body property
Body ==
    /\ \E b \in {HttpRequest_body(req, Attrs)} :
          /\ Put(b.attrs)
          /\ raised' = b.err
          /\ last' = CallOf("body", req, Attrs, form, b, form)
    /\ UNCHANGED <<orig, req, scan, readout, nparse, call, dictvars, form,
                   repoint>>

\* HttpRequest._load_post_and_files()
LoadPostAndFiles ==
    /\ \E ok \in BOOLEAN :
       \E ld \in {load_post_and_files(req, Attrs, form, ok)} :
          /\ Put(ld.attrs)
          /\ form' = ld.form
          /\ raised' = ld.err
          /\ last' = CallOf("load", req, Attrs, form, ld, ld.form)
    /\ UNCHANGED <<orig, req, scan, readout, nparse, call, dictvars,
                   repoint>>

NextBody ==
    \/ ParseRequestHeader \/ AssignFields \/ AttachStream
    \/ InitReadStarted \/ Read \/ Readline \/ Body \/ LoadPostAndFiles

SpecBody == InitBody /\ [][NextBody]_vars

-----------------------------------------------------------------------------
(* The life of a request: it is parsed, its encoding is assigned, GET and  *)
(* POST are read, its body is dispatched, request_stream is replaced and   *)
(* the header is parsed again.                                             *)

\* `class HttpRequest:` names no base class: in Python 2 a classic class,
\* on whose instances an assignment stores an instance attribute and never
\* runs the setter of a property.
ClassicClass == TRUE

ISO_8859_1 == "iso-8859-1"

\* The encoding setter: self._encoding = val; del self.GET; del self._post
encoding_setter(r, f, val) ==
    [req |-> [r EXCEPT !.encoding_attr = val, !.GET_set = FALSE],
     form |-> [f EXCEPT !.post = NoAttr]]

\* request.encoding = val
EncodingAssigned(r, f, val) ==
    IF ClassicClass THEN [req |-> [r EXCEPT !.encoding = val], form |-> f]
    ELSE encoding_setter(r, f, val)

InitLife ==
    /\ \E s \in NamedStreams :
          /\ orig = s
          /\ source = <<s>>
    /\ req = NewRequest
    /\ stream_attr = "unset"
    /\ read_started = "unset"
    /\ raised = NoError
    /\ scan = NoScan
    /\ readout = NoRead
    /\ nparse = 0
    /\ call = NoCall
    /\ NoDicts
    /\ NoBody

\* The owner assigns request.encoding, once.
AssignEncoding ==
    /\ HttpRequest_encoding(req) = DEFAULT_CHARSET
    /\ \E set \in {EncodingAssigned(req, form, ISO_8859_1)} :
          /\ req' = set.req
          /\ form' = set.form
    /\ UNCHANGED <<source, orig, stream_attr, read_started, raised, scan,
                   readout, nparse, call, dictvars, body_attr, nread, last,
                   repoint>>

\* What reading an attribute leaves: AttributeError if it does not exist
AttributeRead(exists) ==
    [err |-> IF exists THEN NoError ELSE "AttributeError", ret |-> <<>>,
     attrs |-> Attrs]

\* request.GET is read
AccessGET ==
    /\ \E rd \in {AttributeRead(req.GET_set)} :
          /\ raised' = rd.err
          /\ last' = [CallOf("GET", req, Attrs, form, rd, form)
                        EXCEPT !.got = req.GET]
    /\ UNCHANGED <<source, orig, req, stream_attr, read_started, scan,
                   readout, nparse, call, dictvars, body_attr, form, nread,
                   repoint>>

\* request.POST is read: the QueryDict __init__ made
AccessPOST ==
    /\ \E rd \in {AttributeRead(TRUE)} :
          /\ raised' = rd.err
          /\ last' = [CallOf("POST", req, Attrs, form, rd, form)
                        EXCEPT !.got = [QueryDict(<<>>, TRUE)
                                          EXCEPT !.data = form.POST]]
    /\ UNCHANGED <<source, orig, req, stream_attr, read_started, scan,
                   readout, nparse, call, dictvars, body_attr, form, nread,
                   repoint>>

\* The owner points request_stream at another source, once.
Repoint ==
    /\ ~repoint.done
    /\ \E s \in NamedStreams :
          /\ orig' = s
          /\ source' = <<s>>
    /\ repoint' = [done |-> TRUE, nparse |-> nparse, req |-> req]
    /\ UNCHANGED <<req, stream_attr, read_started, raised, scan, readout,
                   nparse, call, dictvars, body_attr, form, nread, last>>

\* HttpRequest.parse(): parse_request_header(), then _load_post_and_files()
\* unless that raised.
Parse ==
    /\ nparse < MaxParses
    /\ \E ok \in BOOLEAN : \E res \in {parse_request_header(req, source)} :
       \E ld \in {load_post_and_files(
                     res.req, [Attrs EXCEPT !.source = res.producer], form,
                     ok)} :
          /\ req' = res.req
          /\ scan' = res.scan
          /\ IF res.err # NoError
             THEN /\ raised' = res.err
                  /\ source' = res.producer
                  /\ UNCHANGED <<read_started, stream_attr, body_attr, nread,
                                 form, last>>
             ELSE /\ raised' = ld.err
                  /\ Put(ld.attrs)
                  /\ form' = ld.form
                  /\ last' = CallOf("load", res.req,
                                    [Attrs EXCEPT !.source = res.producer],
                                    form, ld, ld.form)
    /\ nparse' = nparse + 1
    /\ UNCHANGED <<orig, readout, call, dictvars, repoint>>

NextLife ==
    \/ ParseRequestHeader \/ Parse \/ LoadPostAndFiles \/ AssignEncoding
    \/ AccessGET \/ AccessPOST \/ Repoint

SpecLife == InitLife /\ [][NextLife]_vars

-----------------------------------------------------------------------------
(* The module-level functions, called on their own.                        *)

TokenAlphabet == {"a", "G", "1", ".", ":", "[", "]", LF, "_"}

HostExample ==
    <<"e","x","a","m","p","l","e",".","c","o","m",":","8","4","4","3">>

HostUpperDot == <<"E","x","a","m","p","l","e",".","C","O","M",".">>

HostV6 == <<"[",":",":","1","]">>

HostV6Port == <<"[",":",":","1","]",":","8","0">>

HostV6Newline == <<"[",":",":","1","]","\n">>

Tokens(n) ==
    SeqsUpTo(TokenAlphabet, n)
        \cup {HostExample, HostUpperDot, HostV6, HostV6Port, HostV6Newline}

\* sep.join(parts)
RECURSIVE Join(_, _)
Join(parts, sep) ==
    IF parts = <<>> THEN <<>>
    ELSE IF Len(parts) = 1 THEN parts[1]
    ELSE parts[1] \o sep \o Join(Tail(parts), sep)

\* The tokens request lines are made of; the empty token stands for a
\* leading, trailing or doubled space.
LineTokens ==
    {<<>>, <<"G","E","T">>, <<"/","p">>, <<"H","T","T","P","/","1",".","1">>}

TokenLists(n) == SeqsUpTo(LineTokens, n) \ {<<>>}

\* The header lines blobs are made of: name, colon, raw value; or a bare name.
HeaderNames == {<<"A">>, <<"a">>, <<"B">>}

HeaderRawValues ==
    {<<"1">>, <<" ", "2", ":", "3", "\t">>, <<>>, <<NonAsciiByte>>}

HeaderLines ==
    [colon : {TRUE}, name : HeaderNames, raw : HeaderRawValues]
        \cup {[colon |-> FALSE, name |-> <<"B">>, raw |-> <<>>]}

LineText(l) == IF l.colon THEN l.name \o <<":">> \o l.raw ELSE l.name

RECURSIVE LinesText(_)
LinesText(ls) ==
    IF ls = <<>> THEN <<>>
    ELSE LineText(Head(ls)) \o CRLF \o LinesText(Tail(ls))

\* A header blob as parse_request_header hands it over: the request line and
\* every header line, each ended by CR LF.
Blob(ls) == <<"L">> \o CRLF \o LinesText(ls)

HeaderLineLists(n) == SeqsUpTo(HeaderLines, n)

\* The raw query strings QueryDicts are made of
QueryAlphabet == {"k", "=", "&", "+", "%", "2", "6", NonAsciiByte}

QueryStrings(n) == SeqsUpTo(QueryAlphabet, n)

\* A call about to be made: the function and its argument (for a request
\* line or a header blob, also the parts the argument was built from).
Pending(fn, arg, lines) ==
    [fn |-> fn, arg |-> arg, lines |-> lines, done |-> FALSE, ret |-> <<>>]

InitFn ==
    /\ orig = <<>>
    /\ source = <<>>
    /\ req = NewRequest
    /\ stream_attr = "unset"
    /\ read_started = "unset"
    /\ raised = NoError
    /\ scan = NoScan
    /\ readout = NoRead
    /\ nparse = 0
    /\ \/ \E t \in Tokens(MaxTokenLen) :
             call = Pending("split_domain_port", t, <<>>)
       \/ \E ts \in TokenLists(MaxLineTokens) :
             call = Pending("parse_request_line", Join(ts, <<SP>>), ts)
       \/ \E ls \in HeaderLineLists(MaxHeaderLines) :
             call = Pending("parse_request_headers", Blob(ls), ls)
       \/ \E qs \in QueryStrings(MaxQueryLen) :
             call = Pending("urlencode", qs, <<>>)
    /\ NoDicts
    /\ NoBody

\* What split_domain_port returns, as a record
HostPort(hp) == [host |-> hp[1], port |-> hp[2]]

CallSplitDomainPort ==
    /\ call.fn = "split_domain_port" /\ ~call.done
    /\ call' = [call EXCEPT !.done = TRUE,
                            !.ret = HostPort(split_domain_port(call.arg))]
    /\ UNCHANGED <<reqvars, dictvars>>

CallParseRequestLine ==
    /\ call.fn = "parse_request_line" /\ ~call.done
    /\ call' = [call EXCEPT !.done = TRUE,
                            !.ret = parse_request_line(call.arg)]
    /\ UNCHANGED <<reqvars, dictvars>>

CallParseRequestHeaders ==
    /\ call.fn = "parse_request_headers" /\ ~call.done
    /\ call' = [call EXCEPT !.done = TRUE,
                            !.ret = parse_request_headers(call.arg)]
    /\ UNCHANGED <<reqvars, dictvars>>

\* QueryDict(qs).urlencode(), and the QueryDict made of what it returned
Reparsed(first, encoded) ==
    [err |-> encoded.err, text |-> encoded.text, pairs |-> encoded.out,
     first |-> first,
     again |-> IF encoded.err = NoError
               THEN QueryDict(encoded.text, FALSE).data ELSE EmptyDict]

CallUrlencode ==
    /\ call.fn = "urlencode" /\ ~call.done
    /\ \E first \in {QueryDict(call.arg, FALSE).data} :
          call' = [call EXCEPT
                     !.done = TRUE,
                     !.ret = Reparsed(first, QueryDict_urlencode(first))]
    /\ UNCHANGED <<reqvars, dictvars>>

NextFn ==
    \/ CallSplitDomainPort \/ CallParseRequestLine
    \/ CallParseRequestHeaders \/ CallUrlencode

SpecFn == InitFn /\ [][NextFn]_vars

-----------------------------------------------------------------------------
(* The dicts on their own: a MultiValueDict or QueryDict is constructed,   *)
(* then its methods are called, on it and on its copy.                     *)

MappingArgs ==
    {EmptyDict,
     [k \in {KeyA} |-> <<Value1>>],
     [k \in {KeyA} |-> <<Value1, Value2>>],
     [k \in {KeyA} |-> <<>>],
     [k \in DictKeys |-> <<Value2>>]}

QueryStringArgs ==
    {<<>>, <<"a","=","1">>, <<"a","=","1","&","a","=","2">>,
     <<"a","=","1","&","b","=","2">>}

KeyArgs(o) == IF o.cls = "QueryDict" THEN DictKeys \cup {ByteKey} ELSE DictKeys

ValueArgs(o) ==
    IF o.cls = "QueryDict" THEN {Value1, Value2, ByteValue}
    ELSE {Value1, Value2}

ListArgs(o) ==
    {NoneArg, ListArg(<<>>), ListArg(<<Value1>>), ListArg(<<Value2, Value1>>)}
       \cup (IF o.cls = "QueryDict" THEN {ListArg(<<ByteValue>>)}
             ELSE {ValueArg(Value1)})

OtherArgs(o) ==
    {[t |-> "MultiValueDict", items |-> <<>>],
     [t |-> "MultiValueDict", items |-> << <<KeyA, <<Value1, Value2>>>> >>],
     [t |-> "MultiValueDict", items |-> << <<KeyB, <<>>>> >>],
     [t |-> "dict", items |-> <<>>],
     [t |-> "dict", items |-> << <<KeyA, Value2>>, <<KeyB, Value1>> >>]}
       \cup (IF o.cls = "QueryDict"
             THEN {[t |-> "dict", items |-> << <<KeyB, ByteValue>> >>]}
             ELSE {})

\* dct is constructed: a MultiValueDict from a mapping, or a QueryDict from a
\* query string.
Constructed(made) ==
    /\ heap = made.heap
    /\ dct = made.obj
    /\ cpy = NoDict
    /\ hist = [NoHist EXCEPT
                 !.made = Lists(made.heap, made.obj),
                 !.app = [k \in DictKeys |->
                            [ok |-> k \notin DOMAIN made.obj.refs,
                             vals |-> <<>>]]]

InitDict ==
    /\ orig = <<>>
    /\ source = <<>>
    /\ req = NewRequest
    /\ stream_attr = "unset"
    /\ read_started = "unset"
    /\ raised = NoError
    /\ scan = NoScan
    /\ readout = NoRead
    /\ nparse = 0
    /\ call = NoCall
    /\ NoBody
    /\ \/ \E m \in MappingArgs : Constructed(MultiValueDict_init(<<>>, m))
       \/ \E q \in QueryStringArgs : \E mutable \in BOOLEAN :
             Constructed(QueryDict_init(<<>>, q, mutable, DEFAULT_CHARSET))

\* The dicts a method can be called on, and the dict a name stands for
Targets == IF cpy.cls = "none" THEN {"d"} ELSE {"d", "c"}

Target(tgt) == IF tgt = "d" THEN dct ELSE cpy

\* The appended values followed per key, after call op on dct: an appendlist
\* that returned adds its value; any other call starts over, with the keys
\* that are absent after it.
Followed(op, res, key, value) ==
    IF op = "appendlist"
    THEN IF res.err = NoError /\ hist.app[key].ok
         THEN [hist.app EXCEPT ![key].vals = Append(@, value)]
         ELSE hist.app
    ELSE [k \in DictKeys |->
            [ok |-> k \notin DOMAIN res.obj.refs, vals |-> <<>>]]

\* A mutator op was called on tgt with key and value, and left res.
Called(tgt, op, res, key, value, empty_arg) ==
    /\ hist.n < MaxDictOps
    /\ heap' = res.heap
    /\ dct' = IF tgt = "d" THEN res.obj ELSE dct
    /\ cpy' = IF tgt = "c" THEN res.obj ELSE cpy
    /\ hist' = [hist EXCEPT
                  !.n = @ + 1, !.op = op, !.tgt = tgt, !.err = res.err,
                  !.empty_arg = empty_arg,
                  !.d_called = @ \/ (tgt = "d" /\ hist.copied),
                  !.c_called = @ \/ tgt = "c",
                  !.app = IF tgt = "d" /\ key \in DictKeys
                          THEN Followed(op, res, key, value) ELSE @]
    /\ UNCHANGED <<reqvars, call>>

SetItem ==
    \E tgt \in Targets : \E key \in KeyArgs(Target(tgt)) :
    \E value \in ValueArgs(Target(tgt)) :
       Called(tgt, "setitem", Self_setitem(heap, Target(tgt), key, value),
              key, value, FALSE)

DelItem ==
    \E tgt \in Targets : \E key \in KeyArgs(Target(tgt)) :
       Called(tgt, "delitem", Self_delitem(heap, Target(tgt), key),
              key, None, FALSE)

SetList ==
    \E tgt \in Targets : \E key \in KeyArgs(Target(tgt)) :
    \E list_ \in ListArgs(Target(tgt)) :
       Called(tgt, "setlist", Self_setlist(heap, Target(tgt), key, list_),
              key, None, FALSE)

SetListDefault ==
    \E tgt \in Targets : \E key \in KeyArgs(Target(tgt)) :
    \E list_ \in ListArgs(Target(tgt)) :
       Called(tgt, "setlistdefault",
              Self_setlistdefault(heap, Target(tgt), key, list_),
              key, None, FALSE)

AppendList ==
    \E tgt \in Targets : \E key \in KeyArgs(Target(tgt)) :
    \E value \in ValueArgs(Target(tgt)) :
       Called(tgt, "appendlist",
              Self_appendlist(heap, Target(tgt), key, value),
              key, value, FALSE)

SetDefault ==
    \E tgt \in Targets : \E key \in KeyArgs(Target(tgt)) :
    \E value \in ValueArgs(Target(tgt)) \cup {None} :
       Called(tgt, "setdefault",
              Self_setdefault(heap, Target(tgt), key, value),
              key, value, FALSE)

Update ==
    \E tgt \in Targets : \E other \in OtherArgs(Target(tgt)) :
       Called(tgt, "update", MultiValueDict_update(heap, Target(tgt), other),
              KeyA, None, other.items = <<>>)

Pop ==
    \E tgt \in Targets : \E key \in KeyArgs(Target(tgt)) :
       Called(tgt, "pop", Self_pop(heap, Target(tgt), key), key, None, FALSE)

\* popitem on an empty dict raises KeyError as pop of an absent key does.
PopItem ==
    \E tgt \in Targets :
    \E key \in IF Target(tgt).refs = EmptyDict THEN {KeyA}
               ELSE DOMAIN Target(tgt).refs :
       Called(tgt, "popitem", Self_popitem(heap, Target(tgt), key),
              key, None, FALSE)

Clear ==
    \E tgt \in Targets :
       Called(tgt, "clear", Self_clear(heap, Target(tgt)), KeyA, None, FALSE)

\* cpy = dct.copy(), for dct a QueryDict
Copy ==
    /\ hist.n < MaxDictOps
    /\ dct.cls = "QueryDict"
    /\ ~hist.copied
    /\ \E res \in {QueryDict_copy(heap, dct)} :
          /\ heap' = res.heap
          /\ cpy' = IF res.err = NoError THEN res.obj ELSE NoDict
          /\ hist' = [hist EXCEPT !.n = @ + 1, !.op = "copy", !.tgt = "d",
                                  !.err = res.err, !.empty_arg = FALSE,
                                  !.copied = TRUE,
                                  !.snap = Lists(heap, dct)]
    /\ UNCHANGED <<dct, reqvars, call>>

NextDict ==
    \/ SetItem \/ DelItem \/ SetList \/ SetListDefault \/ AppendList
    \/ SetDefault \/ Update \/ Pop \/ PopItem \/ Clear \/ Copy

SpecDict == InitDict /\ [][NextDict]_vars

-----------------------------------------------------------------------------
(* Properties of the module-level functions (checked under SpecFn).        *)

Done(fn) == call.fn = fn /\ call.done

\* The request line was built from three non-empty, space-free tokens.
ThreeTokens(ts) == Len(ts) = 3 /\ \A i \in 1..3 : ts[i] # <<>>

\* C5: parse_request_line returns the method, request-target and protocol
\* of every line of three non-empty space-free tokens, and fails with
\* InvalidHttpRequest, never another error, on every other line.
C5_RequestLineTokens ==
    Done("parse_request_line") =>
       IF ThreeTokens(call.lines)
       THEN /\ call.ret.err = NoError
            /\ call.ret.meta_dict.METHOD = call.lines[1]
            /\ call.ret.meta_dict.PROTO_INFO = call.lines[3]
       ELSE call.ret.err = "InvalidHttpRequest"

\* The blob's lines are all ASCII.
AsciiLines(ls) == \A i \in 1..Len(ls) : EncodesAsAscii(LineText(ls[i]))

\* C6: parse_request_headers fails with InvalidHttpRequest, and no other
\* error, for every blob with a header line that has no colon, be it the
\* first header line or a later one.
C6_NoColonRejected ==
    (/\ Done("parse_request_headers")
     /\ AsciiLines(call.lines)
     /\ \E i \in 1..Len(call.lines) : ~call.lines[i].colon)
       => call.ret.err = "InvalidHttpRequest"

\* The stripped values of the lines of ls named `name`, in order.
RECURSIVE ValuesFor(_, _)
ValuesFor(ls, name) ==
    IF ls = <<>> THEN <<>>
    ELSE (IF Head(ls).name = name THEN <<Strip(Head(ls).raw)>> ELSE <<>>)
            \o ValuesFor(Tail(ls), name)

\* C9: the map parse_request_headers returns has exactly the header names
\* of the blob as keys, case kept, each mapped to the stripped values of the
\* lines carrying that name, in the order of the lines.
C9_HeaderLists ==
    (Done("parse_request_headers") /\ call.ret.err = NoError) =>
       /\ DOMAIN call.ret.request_headers
             = {call.lines[i].name : i \in 1..Len(call.lines)}
       /\ \A k \in DOMAIN call.ret.request_headers :
             call.ret.request_headers[k] = ValuesFor(call.lines, k)

\* C9's case: a name occurring twice with different values, beside the same
\* name in the other case.
C9_Witness ==
    /\ Done("parse_request_headers")
    /\ call.ret.err = NoError
    /\ <<"A">> \in DOMAIN call.ret.request_headers
    /\ <<"a">> \in DOMAIN call.ret.request_headers
    /\ call.ret.request_headers[<<"A">>] = << <<"1">>, <<"2", ":", "3">> >>

\* The host grammar: a hostname token or a bracketed IPv6 literal,
\* optionally followed by a colon and digits.
HostGrammar(t) ==
    \E k \in 1..Len(t) :
       /\ IsHostName(SubSeq(t, 1, k)) \/ IsBracketed(SubSeq(t, 1, k))
       /\ k = Len(t) \/ IsPort(SubSeq(t, k + 1, Len(t)))

\* C10: split_domain_port yields ('', '') for a token outside the host
\* grammar, the literal and an empty port for a bracketed literal without
\* port; the host it returns is lower-case and the port empty or digits.
C10_SplitDomainPort ==
    Done("split_domain_port") =>
       /\ ~HostGrammar(Lower(call.arg)) =>
             call.ret = [host |-> <<>>, port |-> <<>>]
       /\ IsBracketed(Lower(call.arg)) =>
             call.ret = [host |-> Lower(call.arg), port |-> <<>>]
       /\ call.ret.host = Lower(call.ret.host)
       /\ AllIn(call.ret.port, Digits)

-----------------------------------------------------------------------------
(* Properties of the request (checked under Spec).                         *)

\* The first parse_request_header call has run, on the whole stream.
FirstParse == nparse = 1 /\ Flatten(scan.chunks) = orig

\* ... and its scan ended at the first separator of the stream.
FramedAtFirst ==
    /\ FirstParse
    /\ scan.found
    /\ scan.request_header = Slice(orig, 0, Find(orig, CRLFCRLF, 0))

\* C1: the spec's end-to-end example parses without raising, into method
\* GET, host example.com, port 80, path /p and q = 1, 2.
C1_EndToEnd ==
    (FramedAtFirst /\ orig = StreamGetQuery) =>
       /\ scan.err = NoError
       /\ req.method = <<"G","E","T">>
       /\ req.host = <<"e","x","a","m","p","l","e",".","c","o","m">>
       /\ req.port = PortInt(80)
       /\ req.path = <<"/","p">>
       /\ MVD_getlist(req.GET.data, Text(<<"q">>))
             = <<Text(<<"1">>), Text(<<"2">>)>>
       /\ MVD_get(req.GET.data, Text(<<"q">>), None) = Text(<<"2">>)

\* C2: however a stream that holds CR LF CR LF is delivered, the scan finds
\* its first CR LF CR LF, and the header text is what precedes it.
C2_FindsFirstSeparator ==
    (FirstParse /\ Find(orig, CRLFCRLF, 0) # -1) =>
       /\ scan.found
       /\ scan.request_header = Slice(orig, 0, Find(orig, CRLFCRLF, 0))

\* C3: the bytes that followed the separator in the last chunk read are
\* what the request's read() returns first: header, separator and the bytes
\* read afterwards make up the stream.
C3_PushbackReadable ==
    (FirstParse /\ scan.found /\ readout.done) =>
       scan.request_header \o CRLFCRLF \o readout.bytes = orig

\* No chunk of the call's deliveries holds CR LF CR LF.
NoSeparatorDelivered ==
    \A i \in 1..Len(scan.chunks) : Find(scan.chunks[i], CRLFCRLF, 0) = -1

\* C4: a parse_request_header call that exhausts the source without finding
\* CR LF CR LF raises InvalidHttpRequest and leaves every field of the
\* request as constructed.
C4_ExhaustedRaises ==
    (nparse >= 1 /\ NoSeparatorDelivered) =>
       /\ scan.err = "InvalidHttpRequest"
       /\ req = NewRequest

\* C4's case: a non-empty stream without separator was read to its end.
C4_Witness ==
    /\ nparse >= 1
    /\ NoSeparatorDelivered
    /\ Len(scan.chunks) >= 2
    /\ source = <<>>
    /\ scan.err = "InvalidHttpRequest"

\* What the tokenizers make of the header the scan handed over.
ScannedHeaders == parse_request_headers(scan.request_header \o CRLF)

ScannedTokens == Split(ScannedHeaders.request_line, SP, 3)

\* The call framed a request with a three-token request line and header
\* lines that all have a colon.
WellFormedRequest ==
    /\ FramedAtFirst
    /\ ScannedHeaders.err = NoError
    /\ ThreeTokens(ScannedTokens)

ScannedAuthority == urlparse(ScannedTokens[2])[2]

\* C7: the host comes from the request-target's authority when it has one,
\* else from the Host header; with neither, the parse fails with
\* NoHostFoundException and no field of the request is assigned.
C7_HostResolution ==
    WellFormedRequest =>
       IF ScannedAuthority # <<>>
       THEN req.host = split_domain_port(ScannedAuthority)[1]
       ELSE IF HostKey \in DOMAIN ScannedHeaders.request_headers
       THEN req.host = split_domain_port(
                MVD_getitem(ScannedHeaders.request_headers, HostKey))[1]
       ELSE scan.err = "NoHostFoundException" /\ req = NewRequest

\* C8: after the parse of a request with a resolvable host, the header map
\* in META has no Host and no Content-Type key, keeps every other header,
\* and content_type is the received Content-Type (or unset).
C8_PromotedHeaders ==
    (/\ WellFormedRequest
     /\ ScannedAuthority # <<>> \/ HostKey \in DOMAIN ScannedHeaders.request_headers)
       => /\ scan.err = NoError
          /\ "REQUEST_HEADERS" \in DOMAIN req.META
          /\ DOMAIN req.META["REQUEST_HEADERS"]
                = (DOMAIN ScannedHeaders.request_headers)
                     \ {HostKey, ContentTypeKey}
          /\ \A k \in DOMAIN req.META["REQUEST_HEADERS"] :
                req.META["REQUEST_HEADERS"][k]
                   = ScannedHeaders.request_headers[k]
          /\ req.content_type
                = MVD_get(ScannedHeaders.request_headers, ContentTypeKey, None)

\* The host token the request resolves to: the authority, else the Host
\* header.
ScannedHostToken ==
    IF ScannedAuthority # <<>> THEN ScannedAuthority
    ELSE MVD_getitem(ScannedHeaders.request_headers, HostKey)

ScannedScheme == urlparse(ScannedTokens[2])[1]

\* C11: when the resolved host token carries no port, the port is 443 for
\* scheme https, 80 for http and the sentinel 65536 for any other or absent
\* scheme; a request-target without scheme is reported as 'UNKNOWN'; the
\* scheme never makes the parse fail.
C11_DefaultPort ==
    (/\ WellFormedRequest
     /\ ScannedAuthority # <<>> \/ HostKey \in DOMAIN ScannedHeaders.request_headers
     /\ split_domain_port(ScannedHostToken)[2] = <<>>)
       => /\ req.port = DefaultPort(ScannedScheme)
          /\ req.scheme = SchemeFor(ScannedScheme)
          /\ scan.err \notin {"ValueError", "InvalidHttpRequest"}

-----------------------------------------------------------------------------
(* Properties of the dicts (checked under SpecDict).                       *)

\* The lists dct and cpy hold, by key
DictLists == Lists(heap, dct)

CopyLists == Lists(heap, cpy)

\* C12: in a MultiValueDict a key is present only with a non-empty list of
\* values: no operation, the constructor included, leaves a key mapped to
\* an empty list.
C12_NoEmptyList ==
    dct.cls = "MultiValueDict" =>
       \A k \in DOMAIN DictLists : DictLists[k] # <<>>

\* C13: after appendlist calls on a key that was absent, getlist of the key
\* is the appended values in call order, and get and [] give the last one.
C13_AppendOrder ==
    \A k \in DictKeys :
       (hist.app[k].ok /\ hist.app[k].vals # <<>>) =>
          /\ k \in DOMAIN DictLists
          /\ MVD_getlist(DictLists, k) = hist.app[k].vals
          /\ MVD_get(DictLists, k, None)
                = hist.app[k].vals[Len(hist.app[k].vals)]
          /\ MVD_getitem(DictLists, k)
                = hist.app[k].vals[Len(hist.app[k].vals)]

\* C13's case: appendlist(k, v1); appendlist(k, v2) on a MultiValueDict
\* without k.
C13_Witness ==
    /\ dct.cls = "MultiValueDict"
    /\ hist.app[KeyA].ok
    /\ hist.app[KeyA].vals = <<Value1, Value2>>
    /\ MVD_get(DictLists, KeyA, None) = Value2

\* C14: every mutating call on an immutable QueryDict raises AttributeError,
\* whatever its arguments, and the dict keeps the content it was
\* constructed with.
C14_ImmutableRejects ==
    (dct.cls = "QueryDict" /\ ~dct.mutable) =>
       /\ DictLists = hist.made
       /\ (hist.tgt = "d" /\ hist.op \notin {"none", "copy"}) =>
             hist.err = "AttributeError"

\* The list objects a dict holds
ListsOf(o) == {o.refs[k] : k \in DOMAIN o.refs}

\* C15: copy() of a QueryDict, mutable or not, returns a mutable QueryDict
\* of the same encoding with the same keys and lists and no list object in
\* common: calls on the copy leave the original's content as it was, and
\* calls on the original leave the copy's.
C15_CopyIndependent ==
    hist.copied =>
       /\ cpy.cls = "QueryDict"
       /\ cpy.mutable
       /\ cpy.encoding = dct.encoding
       /\ ListsOf(cpy) \cap ListsOf(dct) = {}
       /\ ~hist.c_called => CopyLists = hist.snap
       /\ ~hist.d_called => DictLists = hist.snap

-----------------------------------------------------------------------------
(* Properties of QueryDict.urlencode (checked under SpecFn).               *)

\* The number of values a dict holds
RECURSIVE ValueCount(_, _)
ValueCount(data, keys) ==
    IF keys = {} THEN 0
    ELSE LET k == CHOOSE x \in keys : TRUE
         IN  Len(data[k]) + ValueCount(data, keys \ {k})

\* C16: for every raw query string, urlencode() of its QueryDict returns
\* one key=value pair per stored value, joined with '&', and parsing that
\* string again gives the same keys with the same lists of values.
C16_UrlencodeRoundTrip ==
    Done("urlencode") =>
       /\ call.ret.err = NoError
       /\ call.ret.again = call.ret.first
       /\ Len(call.ret.pairs) = ValueCount(call.ret.first,
                                           DOMAIN call.ret.first)
       /\ call.ret.text = JoinAmp(call.ret.pairs)

-----------------------------------------------------------------------------
(* Properties of the body and its dispatch (checked under SpecBody).       *)

MultipartPrefix == <<"m","u","l","t","i","p","a","r","t","/">>

\* content_type is a multipart/* type, with or without parameters
IsMultipartType(content_type) ==
    /\ content_type # None
    /\ Slice(content_type, 0, Len(MultipartPrefix)) = MultipartPrefix

\* The last call was _load_post_and_files, on a request whose owner had set
\* _read_started to False, and it returned or the decoder it called raised.
Dispatched ==
    /\ last.op = "load"
    /\ last.before.read_started = "False"
    /\ last.err \in {NoError, "MultiPartParserError"}

\* C17: _load_post_and_files routes by method and content type: a non-POST
\* request gets empty POST and FILES and its body is not read; a POST of a
\* multipart/* type, parameters or not, goes to the multipart decoder; a
\* POST of application/x-www-form-urlencoded gets the QueryDict of the
\* buffered body and empty FILES; a POST of any other type gets empty POST
\* and FILES.
C17_BodyDispatch ==
    Dispatched =>
       /\ form.post.set /\ form.files.set
       /\ IF last.before.method # POST_
          THEN /\ form.route = "empty"
               /\ form.post.dict = EmptyDict /\ form.files.dict = EmptyDict
               /\ last.after.nread = last.before.nread
          ELSE IF IsMultipartType(last.before.content_type)
          THEN form.route = "multipart" \/ last.err = "MultiPartParserError"
          ELSE IF last.before.content_type = FORM_URLENCODED
          THEN /\ form.route = "urlencoded"
               /\ form.post.dict = QueryDict(body_attr.bytes, FALSE).data
               /\ form.files.dict = EmptyDict
          ELSE /\ form.route = "empty"
               /\ form.post.dict = EmptyDict /\ form.files.dict = EmptyDict

\* C18: once _load_post_and_files has returned for a POST request of
\* application/x-www-form-urlencoded, request.POST maps every key of the
\* body to its list of values; once it has returned for a GET request,
\* request.GET maps every key of the query string to its list of values and
\* request.POST is empty.
C18_PublicMultimaps ==
    (last.op = "load" /\ last.err = NoError) =>
       /\ (/\ last.before.method = POST_
           /\ last.before.content_type = FORM_URLENCODED
           /\ form.route = "urlencoded")
          => form.POST = QueryDict(body_attr.bytes, FALSE).data
       /\ (/\ last.before.method = GET_
           /\ "QUERY_STRING" \in DOMAIN last.before.META)
          => /\ req.GET.data =
                  QueryDict(last.before.META["QUERY_STRING"], FALSE).data
             /\ form.POST = EmptyDict

\* The Content-Length the parsed headers in META declare, 0 if none
DeclaredLength(META) ==
    IF "REQUEST_HEADERS" \notin DOMAIN META THEN 0
    ELSE IF ContentLengthKey \notin DOMAIN META["REQUEST_HEADERS"] THEN 0
    ELSE IntOf(MVD_getitem(META["REQUEST_HEADERS"], ContentLengthKey))

\* The last call reached for the body: an access to body, or the dispatch
\* of a form-encoded POST, with the body not buffered yet, _read_started
\* set to False and _stream pointed at the source by the owner.
ReachedForBody ==
    /\ \/ last.op = "body"
       \/ /\ last.op = "load"
          /\ last.before.method = POST_
          /\ last.before.content_type = FORM_URLENCODED
    /\ ~last.before.body_set
    /\ last.before.read_started = "False"
    /\ last.before.stream = "request_stream"

\* C19: when the parsed headers declare a Content-Length above
\* DATA_UPLOAD_MAX_MEMORY_SIZE, reaching for the body raises
\* RequestDataTooBig, with no read made on the source and nothing buffered.
C19_OversizedRejected ==
    (/\ ReachedForBody
     /\ DeclaredLength(last.before.META) > DATA_UPLOAD_MAX_MEMORY_SIZE)
    => /\ last.err = "RequestDataTooBig"
       /\ last.after.nread = last.before.nread
       /\ ~last.after.body_set

\* C20: an access to body after the stream was read with the body not
\* buffered raises RawPostDataException; any other access to body (the
\* first one, made before any read, and those after it) returns the
\* buffered body, the same bytes each time, and only the first reads the
\* source.
C20_BodyOrdering ==
    last.op = "body" =>
       IF last.before.read_started = "True" /\ ~last.before.body_set
       THEN last.err = "RawPostDataException"
       ELSE ContentLength(last.before.META) <= DATA_UPLOAD_MAX_MEMORY_SIZE
            => /\ last.err = NoError
               /\ body_attr.set
               /\ last.ret = body_attr.bytes
               /\ last.before.body_set
                  => last.after.nread = last.before.nread

\* C21: when the multipart decoder raises, _load_post_and_files raises
\* MultiPartParserError and leaves _post and _files set and empty; and every
\* _load_post_and_files call made after the decoder has raised leaves them
\* empty without calling the decoder, whether or not the body was buffered.
C21_DecoderFailureLatched ==
    last.op = "load" =>
       /\ last.err = "MultiPartParserError"
          => /\ form.route = "error"
             /\ form.post = AttrOf(EmptyDict) /\ form.files = AttrOf(EmptyDict)
       /\ (last.before.failed /\ last.before.method = POST_)
          => /\ ~form.called
             /\ form.post = AttrOf(EmptyDict) /\ form.files = AttrOf(EmptyDict)

-----------------------------------------------------------------------------
(* Properties of the life of a request (checked under SpecLife).           *)

\* C22: once request.encoding was assigned, reading request.GET or
\* request.POST does not fail and gives a QueryDict of that encoding, GET
\* one made of the query string in META.
C22_EncodingReset ==
    (last.op \in {"GET", "POST"} /\ last.before.encoding # DEFAULT_CHARSET)
    => /\ last.err = NoError
       /\ last.got.encoding = last.before.encoding
       /\ (last.op = "GET" /\ "QUERY_STRING" \in DOMAIN last.before.META)
          => last.got.data =
                QueryDict(last.before.META["QUERY_STRING"], FALSE).data

\* The request went through parse_request_header, request_stream was then
\* replaced, and a later parse_request_header call framed the whole new
\* stream: a request line of three tokens, header lines with a colon, and
\* a host in the target or in a Host header.
ParsedAfterRepoint ==
    /\ repoint.done
    /\ repoint.nparse >= 1
    /\ nparse > repoint.nparse
    /\ Flatten(scan.chunks) = orig
    /\ scan.found
    /\ scan.request_header = Slice(orig, 0, Find(orig, CRLFCRLF, 0))
    /\ ScannedHeaders.err = NoError
    /\ ThreeTokens(ScannedTokens)
    /\ ScannedAuthority # <<>> \/ HostKey \in DOMAIN ScannedHeaders.request_headers

\* C23: after a request was parsed, pointing it at a new source and parsing
\* the header again succeeds, and host, content_type, the header map and
\* GET are those of the new request alone.
C23_RepointedShowsNew ==
    ParsedAfterRepoint =>
       /\ scan.err = NoError
       /\ req.host = split_domain_port(ScannedHostToken)[1]
       /\ req.content_type
             = MVD_get(ScannedHeaders.request_headers, ContentTypeKey, None)
       /\ "REQUEST_HEADERS" \in DOMAIN req.META
       /\ DOMAIN req.META["REQUEST_HEADERS"]
             = (DOMAIN ScannedHeaders.request_headers)
                  \ {HostKey, ContentTypeKey}
       /\ \A k \in DOMAIN req.META["REQUEST_HEADERS"] :
             req.META["REQUEST_HEADERS"][k] = ScannedHeaders.request_headers[k]
       /\ req.GET = GetFor(urlparse(ScannedTokens[2])[5])

\* C25: _load_post_and_files called on a request whose header was not
\* parsed successfully (its method is still unset: a successful
\* parse_request_header assigns it) is rejected, and leaves neither _post
\* nor _files.
C25_DispatchNeedsHeader ==
    (last.op = "load" /\ last.before.method = None) =>
       /\ last.err # NoError
       /\ ~form.post.set
       /\ ~form.files.set

-----------------------------------------------------------------------------
(* The storage of a QueryDict (checked under SpecDict).                    *)

\* A Python 2 str: neither None nor unicode text
IsByteString(s) == s # None /\ ~IsText(s)

\* No key and no value of the lists is a byte string.
HoldsNoBytes(lists) ==
    \A k \in DOMAIN lists :
       /\ ~IsByteString(k)
       /\ \A i \in 1..Len(lists[k]) : ~IsByteString(lists[k][i])

\* C24: whatever was called on a QueryDict, no key and no value it holds is
\* a byte string, and no call raised over a byte string it was given: bytes
\* are decoded, text is stored as it is.
C24_StoresTextOnly ==
    dct.cls = "QueryDict" =>
       /\ hist.err # "TypeError"
       /\ HoldsNoBytes(DictLists)
       /\ cpy.cls = "QueryDict" => HoldsNoBytes(CopyLists)

====
